---- MODULE Spec2Model ----
(***************************************************************************)
(* State-machine model of the selection / undo engine and the chunked      *)
(* segmentation colour applier of interSeg3D-Studio:                       *)
(*   stores/annotation.store.ts   clicks, undo / redo history              *)
(*   stores/pointCloud.store.ts   point buffers, load, cleanup, apply      *)
(*   services/threeJs.service.ts  PointCloudService.applySegmentation      *)
(*   GridSpatialIndexUtil         grid index used by applySelection        *)
(*   utils/color.util.ts          label colours                            *)
(*                                                                         *)
(* Conventions.  Point indices are 0-based as in the code; a colour buffer *)
(* is a function from point index to an <<r, g, b>> triple (the code's     *)
(* flat Float32Array read three components at a time).  Colour components  *)
(* are in units of 1/60, which represents every label colour exactly; a    *)
(* component stands for the value as stored in the Float32Array.           *)
(* Coordinates are integers in a unit that makes the automatic cell size   *)
(* (extent / 100) an integer.  undefined / null are modelled by a flag or  *)
(* by 0 where the code's values are positive.                              *)
(***************************************************************************)
EXTENDS Integers, Sequences, FiniteSets, TLC

(***************************************************************************)
(* Bounds of the model                                                     *)
(***************************************************************************)
MaxClicks == 2        \* longest click history explored
MaxRuns == 2          \* applySegmentation runs in flight at once
MaxChunkSize == 2     \* chunk sizes 1..MaxChunkSize (the code's is 100000)
MaxCalls == 2         \* api calls suspended at an await at once
MaxCoord == 2         \* x coordinates of indexed point sets: -MaxCoord..MaxCoord
MaxColorIndex == 80   \* object indices and labels given to the colour functions

\* inputs: object indices of a click (0 is background), segmentation labels,
\* lengths of the label arrays a server answer can have
ObjectIdxs == {0, 1}
Labels == {0, 1}
SegLengths == {2, 3}

(***************************************************************************)
(* Program constants                                                       *)
(***************************************************************************)
DefaultCubeSize == 1          \* ui.store cubeSize = 0.02, the model's unit
CubeSizes == {1, 2}           \* values the cube-size slider can take
SmallCloudDivisor == 100      \* buildSpatialIndex: maxDimension / 100

(***************************************************************************)
(* The PLY files a user can load: positions and colours per point.         *)
(***************************************************************************)
Files == {1, 2}

\* a PLY file with no vertex: loadPLYFile gives it an empty colour attribute
EmptyFile == 3

FilePositions(f) ==
    IF f = 1
    THEN <<  <<0, 0, 0>>, <<1, 0, 0>>, <<2, 1, 0>>, <<100, 0, 0>>  >>
    ELSE IF f = 2
    THEN <<  <<0, 0, 0>>, <<2, 0, 0>>, <<200, 2, 0>>  >>
    ELSE << >>

FilePointCount(f) == Len(FilePositions(f))

\* grey levels 1, 2, ... : never equal to a label colour (which has a 60)
FileColors(f) == [i \in 0..(FilePointCount(f) - 1) |-> <<i + 1, i + 1, i + 1>>]

(***************************************************************************)
(* color.util.ts                                                           *)
(***************************************************************************)
\* THREE.Color.setHSL with s = 1, l = 0.5: one channel from the hue (degrees)
Hue2Rgb(t) ==
    LET t1 == IF t < 0 THEN t + 360 ELSE IF t > 360 THEN t - 360 ELSE t
    IN  IF t1 < 60 THEN t1
        ELSE IF t1 < 180 THEN 60
        ELSE IF t1 < 240 THEN 240 - t1
        ELSE 0

getColorFromIndex(index) ==
    LET hue == (index * 50) % 360
    IN  << Hue2Rgb(hue + 120), Hue2Rgb(hue), Hue2Rgb(hue - 120) >>

\* getSelectionColor falling through to its white fallback in object mode
getSelectionColorFallback(mode, objectIdx) ==
    IF mode = "background" THEN <<6, 6, 6>> ELSE <<60, 60, 60>>

\* background colour (0.1, 0.1, 0.1) in units of 1/60
getSelectionColor(mode, objectIdx) ==
    IF mode = "background" THEN <<6, 6, 6>> ELSE getColorFromIndex(objectIdx)

(***************************************************************************)
(* GridSpatialIndexUtil                                                    *)
(***************************************************************************)
Max2(a, b) == IF a >= b THEN a ELSE b
Min2(a, b) == IF a <= b THEN a ELSE b

RECURSIVE SeqMax(_, _), SeqMin(_, _)
SeqMax(s, k) == IF Len(s) = 1 THEN s[1][k] ELSE Max2(s[1][k], SeqMax(Tail(s), k))
SeqMin(s, k) == IF Len(s) = 1 THEN s[1][k] ELSE Min2(s[1][k], SeqMin(Tail(s), k))

\* Box3.setFromBufferAttribute + getSize + Math.max(size.x, size.y, size.z)
MaxDimension(positions) ==
    IF positions = << >> THEN 0
    ELSE
    Max2(SeqMax(positions, 1) - SeqMin(positions, 1),
         Max2(SeqMax(positions, 2) - SeqMin(positions, 2),
              SeqMax(positions, 3) - SeqMin(positions, 3)))

\* the cell key with each quotient truncated toward zero
getCellKeyTruncated(p, cellSize) ==
    LET t(a) == IF a >= 0 THEN a \div cellSize ELSE 0 - ((0 - a) \div cellSize)
    IN  << t(p[1]), t(p[2]), t(p[3]) >>

\* Math.floor(coordinate / cellSize) per axis
getCellKey(p, cellSize) ==
    << p[1] \div cellSize, p[2] \div cellSize, p[3] \div cellSize >>

\* build: each point index is pushed, in index order, to the cell of its key
RECURSIVE BuildFrom(_, _, _, _)
BuildFrom(positions, cellSize, i, cells) ==
    IF i >= Len(positions) THEN cells
    ELSE LET key == getCellKey(positions[i + 1], cellSize)
             old == IF key \in DOMAIN cells THEN cells[key] ELSE <<>>
         IN  BuildFrom(positions, cellSize, i + 1,
                 [k \in (DOMAIN cells) \cup {key} |->
                     IF k = key THEN Append(old, i) ELSE cells[k]])

NoCells == [k \in {} |-> <<>>]

\* build: cells.clear(), pointCount = positions.length / 3, then the loop
build(positions, cellSize) ==
    [cellSize |-> cellSize, pointCount |-> Len(positions),
     cells |-> BuildFrom(positions, cellSize, 0, NoCells)]

\* a build that leaves the cells of the earlier build in place
KeepCells(cells) == cells

\* `this.cells.clear()` at the start of build
ClearCells(cells) == NoCells

\* build(positions) called again on an index object that was built before
buildAgain(index, positions) ==
    [cellSize |-> index.cellSize, pointCount |-> Len(positions),
     cells |-> BuildFrom(positions, index.cellSize, 0, ClearCells(index.cells))]

\* the three nested loops of findPointsInCube, x outermost
RECURSIVE ScanZ(_, _, _, _, _), ScanY(_, _, _, _, _, _), ScanX(_, _, _, _, _, _, _)
ScanZ(cells, x, y, z, maxZ) ==
    IF z > maxZ THEN <<>>
    ELSE (IF <<x, y, z>> \in DOMAIN cells THEN cells[<<x, y, z>>] ELSE <<>>)
         \o ScanZ(cells, x, y, z + 1, maxZ)
ScanY(cells, x, y, maxY, minZ, maxZ) ==
    IF y > maxY THEN <<>>
    ELSE ScanZ(cells, x, y, minZ, maxZ) \o ScanY(cells, x, y + 1, maxY, minZ, maxZ)
ScanX(cells, x, maxX, minY, maxY, minZ, maxZ) ==
    IF x > maxX THEN <<>>
    ELSE ScanY(cells, x, minY, maxY, minZ, maxZ)
         \o ScanX(cells, x + 1, maxX, minY, maxY, minZ, maxZ)

\* the scan stopping one cell short of the upper cell on every axis
findPointsInCubeExclusive(index, position, size) ==
    LET cs == index.cellSize
    IN  ScanX(index.cells,
              (position[1] - size) \div cs, ((position[1] + size) \div cs) - 1,
              (position[2] - size) \div cs, ((position[2] + size) \div cs) - 1,
              (position[3] - size) \div cs, ((position[3] + size) \div cs) - 1)

\* the scan widened by two cells on every side
findPointsInCubeWide(index, position, size) ==
    LET cs == index.cellSize
    IN  ScanX(index.cells,
              ((position[1] - size) \div cs) - 2, ((position[1] + size) \div cs) + 2,
              ((position[2] - size) \div cs) - 2, ((position[2] + size) \div cs) + 2,
              ((position[3] - size) \div cs) - 2, ((position[3] + size) \div cs) + 2)

\* whether the outer loop of findPointsInCube ends.  With cellSize 0 the
\* bounds are (position - size) / 0 and (position + size) / 0: NaN when the
\* numerator is 0, so that `x <= maxX` is false at once, and otherwise an
\* infinity that x++ leaves unchanged, so that `x <= maxX` stays true
findPointsInCubeReturns(index, position, size) ==
    \/ index.cellSize # 0
    \/ position[1] - size = 0
    \/ position[1] + size = 0

findPointsInCube(index, position, size) ==
    LET cs == index.cellSize
    IN  IF cs = 0 THEN << >>
        ELSE
        ScanX(index.cells,
              (position[1] - size) \div cs, (position[1] + size) \div cs,
              (position[2] - size) \div cs, (position[2] + size) \div cs,
              (position[3] - size) \div cs, (position[3] + size) \div cs)

\* the first pass of applyLegacySelection: the indices, in buffer order, of
\* the points whose coordinates lie between position - cubeSize and
\* position + cubeSize on every axis, both ends included
RECURSIVE LegacyScan(_, _, _, _)
LegacyScan(positions, position, size, i) ==
    IF i >= Len(positions) THEN << >>
    ELSE LET p == positions[i + 1]
             inside == /\ p[1] >= position[1] - size /\ p[1] <= position[1] + size
                       /\ p[2] >= position[2] - size /\ p[2] <= position[2] + size
                       /\ p[3] >= position[3] - size /\ p[3] <= position[3] + size
         IN  (IF inside THEN << i >> ELSE << >>)
                 \o LegacyScan(positions, position, size, i + 1)

applyLegacySelectionIndices(positions, position, size) ==
    LegacyScan(positions, position, size, 0)

(***************************************************************************)
(* useRaycasting: findNearestPoint                                         *)
(***************************************************************************)
\* Number.MAX_VALUE: above every squared distance between model points
MAX_VALUE == 2147483647

SqDist(a, b) ==
    (a[1] - b[1]) * (a[1] - b[1]) + (a[2] - b[2]) * (a[2] - b[2])
        + (a[3] - b[3]) * (a[3] - b[3])

\* the candidate loop keeping a later candidate at equal distance
RECURSIVE NearestFromLast(_, _, _, _, _)
NearestFromLast(cands, positions, position, minDist, nearestIndex) ==
    IF cands = <<>> THEN nearestIndex
    ELSE LET idx == Head(cands)
             dist == SqDist(positions[idx + 1], position)
         IN  IF dist <= minDist
             THEN NearestFromLast(Tail(cands), positions, position, dist, idx)
             ELSE NearestFromLast(Tail(cands), positions, position, minDist, nearestIndex)

\* the loop over pointIndices: `if (dist < minDist)`
RECURSIVE NearestFrom(_, _, _, _, _)
NearestFrom(cands, positions, position, minDist, nearestIndex) ==
    IF cands = <<>> THEN nearestIndex
    ELSE LET idx == Head(cands)
             dist == SqDist(positions[idx + 1], position)
         IN  IF dist < minDist
             THEN NearestFrom(Tail(cands), positions, position, dist, idx)
             ELSE NearestFrom(Tail(cands), positions, position, minDist, nearestIndex)

(***************************************************************************)
(* useRaycasting: performRaycast, tryProgressiveRaycast.  Thresholds are   *)
(* in units of 0.01; what the raycaster intersects is the caller's input.  *)
(***************************************************************************)
NoHit == [hit |-> FALSE, point |-> <<>>]
Undefined == 0 - 1

\* the threshold set when the raycaster is created
InitialThreshold == 1

\* the default of findNearestPoint's maxDistance, 0.1, in units of 0.02
DefaultMaxDistance == 5

Sqrt(n) == CHOOSE r \in 1..n : r * r >= n /\ (r - 1) * (r - 1) < n

\* Math.max(0.01, Math.min(0.03, 5000 / Math.sqrt(pointCount)))
OptimalThreshold(pointCount) == Max2(1, Min2(3, 500000 \div Sqrt(pointCount)))

\* performRaycast(threshold): ready is the context holding raycaster, camera
\* and point cloud; previous is the raycaster's threshold before the call
performRaycast(threshold, ready, pointCount, previous, intersect) ==
    IF ~ready
    THEN [cast |-> FALSE, threshold |-> previous, result |-> NoHit]
    ELSE [cast |-> TRUE,
          threshold |-> IF threshold # Undefined THEN threshold
                        ELSE IF pointCount > 0 THEN OptimalThreshold(pointCount)
                        ELSE previous,
          result |-> intersect]

\* three raycasts whatever the earlier ones found, the last one returned
tryProgressiveRaycastAll(ready, pointCount, previous, hits) ==
    LET a1 == performRaycast(Undefined, ready, pointCount, previous, hits[1])
        a2 == performRaycast(5, ready, pointCount, a1.threshold, hits[2])
        a3 == performRaycast(10, ready, pointCount, a2.threshold, hits[3])
    IN  [result |-> a3.result, attempts |-> <<a1, a2, a3>>]

\* tryProgressiveRaycast: performRaycast(), then performRaycast(0.05), then
\* performRaycast(0.1), each only if there is no result yet
tryProgressiveRaycast(ready, pointCount, previous, hits) ==
    LET a1 == performRaycast(Undefined, ready, pointCount, previous, hits[1])
        a2 == performRaycast(5, ready, pointCount, a1.threshold, hits[2])
        a3 == performRaycast(10, ready, pointCount, a2.threshold, hits[3])
    IN  IF a1.result.hit THEN [result |-> a1.result, attempts |-> <<a1>>]
        ELSE IF a2.result.hit THEN [result |-> a2.result, attempts |-> <<a1, a2>>]
        ELSE [result |-> a3.result, attempts |-> <<a1, a2, a3>>]

NotFound == [found |-> FALSE, index |-> 0 - 1, position |-> <<>>]

\* findNearestPoint(position, maxDistance) on the store's index and data;
\* size is currentCubeSize.value; maxDistance is not read by the function
findNearestPoint(index, data, size, position, maxDistance) ==
    IF ~index.present \/ ~data.geometry THEN NotFound
    ELSE LET pointIndices == findPointsInCube(index, position,
                                 IF size = 0 THEN DefaultCubeSize ELSE size)
             nearestIndex == NearestFrom(pointIndices, data.positions, position,
                                         MAX_VALUE, 0 - 1)
         IN  IF Len(pointIndices) > 0 /\ nearestIndex >= 0
             THEN [found |-> TRUE, index |-> nearestIndex,
                   position |-> data.positions[nearestIndex + 1]]
             ELSE NotFound

\* PointCloudService.buildSpatialIndex without an explicit cell size
buildSpatialIndex(positions) ==
    build(positions, MaxDimension(positions) \div SmallCloudDivisor)

(***************************************************************************)
(* State                                                                   *)
(***************************************************************************)
VARIABLES
    objs,                      \* heap of PointCloudData objects still referenced
    cur,                       \* pointCloudData.value: index into objs
    spatialIndex,              \* pointCloud.store spatialIndex
    isLoading,                 \* pointCloud.store isLoading
    loadingFile,               \* file of the loadPLYFile being awaited, 0 if none
    loadingProgress,           \* pointCloud.store loadingProgress, NoProgress = null
    isProcessingSegmentation,  \* pointCloud.store isProcessingSegmentation
    segmentedPointCloud,       \* pointCloud.store segmentedPointCloud
    runs,                      \* applySegmentation closures with a chunk timer pending
    chunkSize,                 \* chunkSize of processNextChunk
    cubeSize,                  \* ui.store cubeSize
    clickedPoints,             \* annotation.store clickedPoints
    markers,                   \* annotation.store markers
    undoStack,                 \* annotation.store undoStack
    redoStack,                 \* annotation.store redoStack
    isUndoInProgress,          \* annotation.store isUndoInProgress
    isRedoInProgress,          \* annotation.store isRedoInProgress
    undoTimers,                \* pending setTimeout callbacks resetting isUndoInProgress
    redoTimers,                \* pending setTimeout callbacks resetting isRedoInProgress
    operationLock,             \* api.store operationLock
    isProcessing,              \* api.store isProcessing
    apiCalls,                  \* api.store calls suspended at an await
    lastOp,                    \* history: the operation that made the last step
    lastRet,                   \* history: what it returned
    lastArg,                   \* history: facts about its input and its effect
    hist                       \* history: click sequences being tracked

vars == << objs, cur, spatialIndex, isLoading, loadingFile, loadingProgress,
           isProcessingSegmentation, segmentedPointCloud, runs, chunkSize,
           cubeSize, clickedPoints, markers, undoStack, redoStack,
           isUndoInProgress, isRedoInProgress, undoTimers, redoTimers,
           operationLock, isProcessing, apiCalls,
           lastOp, lastRet, lastArg, hist >>

pcVars == << objs, cur, spatialIndex, isLoading, loadingFile, loadingProgress,
             isProcessingSegmentation, segmentedPointCloud, runs >>
annVars == << clickedPoints, markers, undoStack, redoStack,
              isUndoInProgress, isRedoInProgress, undoTimers, redoTimers >>

apiVars == << operationLock, isProcessing, apiCalls >>

NoProgress == 0 - 1
NoArg == [kind |-> "none"]

\* the initial value of pointCloudData and the object cleanup() installs
NullData ==
    [file |-> 0, pointCount |-> 0, positions |-> <<>>, originalColors |-> <<>>,
     currentColors |-> <<>>, geometry |-> FALSE]

NoIndex == [present |-> FALSE, cellSize |-> 0, pointCount |-> 0, cells |-> NoCells]
NoSegmentation == [isSet |-> FALSE, segmentation |-> <<>>]

\* pointCloudStore.pointCloudData (the active object) and its colour buffer
pointCloudData == objs[cur]
currentColors == objs[cur].currentColors

(***************************************************************************)
(* Heap bookkeeping: an object nobody references any more is collected,    *)
(* the remaining ones keep their order.                                    *)
(***************************************************************************)
Live(c, rs) == {c} \cup {rs[r].data : r \in DOMAIN rs}
Rank(S, i) == Cardinality({j \in S : j <= i})

SetHeap(o, c, rs) ==
    LET live == Live(c, rs)
    IN  /\ objs' = [k \in 1..Cardinality(live) |->
                       o[CHOOSE i \in live : Rank(live, i) = k]]
        /\ cur' = Rank(live, c)
        /\ runs' = [r \in DOMAIN rs |-> [rs[r] EXCEPT !.data = Rank(live, rs[r].data)]]

\* a write to the colour buffer of object d by anyone but run `self`
Disturb(rs, d, self) ==
    [r \in DOMAIN rs |->
        IF rs[r].data = d /\ r # self THEN [rs[r] EXCEPT !.clean = FALSE] ELSE rs[r]]

RemoveAt(s, k) == [i \in 1..(Len(s) - 1) |-> IF i < k THEN s[i] ELSE s[i + 1]]

(***************************************************************************)
(* History variable `hist`, read by the properties only:                   *)
(*   fresh   the last fresh object click whose paint nobody has written    *)
(*           over since: the colours before it and its entry               *)
(*   undone  set by the undo() of that click, for the state right after    *)
(*   rt      progress of a run of object clicks, then n undos of them,     *)
(*           then n redos, with the colours and the undo stack as they     *)
(*           were after the clicks                                         *)
(***************************************************************************)
NoFresh == [valid |-> FALSE, colors |-> <<>>, id |-> 0]
NoRt == [phase |-> "off", n |-> 0, k |-> 0, colors |-> <<>>, stack |-> <<>>]
NoHist == [fresh |-> NoFresh, undone |-> NoFresh, rt |-> NoRt]

\* an operation that writes no colour and is no click, undo or redo
HistQuiet == [fresh |-> hist.fresh, undone |-> NoFresh, rt |-> NoRt]
\* a timer callback or a refused undo / redo: the tracked sequence goes on
HistIdle == [fresh |-> hist.fresh, undone |-> NoFresh, rt |-> hist.rt]

(***************************************************************************)
(* pointCloud.store.ts: loadPointCloud, cleanup                            *)
(***************************************************************************)
\* the object loadPointCloud stores: currentColors is the geometry's colour
\* array, originalColors a clone of it
LoadedData(f) ==
    [file |-> f, pointCount |-> FilePointCount(f), positions |-> FilePositions(f),
     originalColors |-> FileColors(f), currentColors |-> FileColors(f),
     geometry |-> TRUE]

\* loadPointCloud up to the await of loadPLYFile
LoadStart(f) ==
    /\ UNCHANGED apiVars
    /\ lastOp' = "loadPointCloud"
    /\ lastArg' = NoArg
    /\ IF isLoading
       THEN /\ lastRet' = "ignored"
            /\ UNCHANGED pcVars
       ELSE /\ lastRet' = "awaiting"
            /\ isLoading' = TRUE
            /\ loadingFile' = f
            /\ loadingProgress' = 0
            /\ segmentedPointCloud' = NoSegmentation
            /\ UNCHANGED << objs, cur, spatialIndex, isProcessingSegmentation, runs >>
    /\ hist' = HistQuiet
    /\ UNCHANGED << annVars, chunkSize, cubeSize >>

\* the loader's onProgress callback
LoadProgress(percent) ==
    /\ UNCHANGED apiVars
    /\ isLoading
    /\ lastOp' = "loadProgress"
    /\ lastRet' = "void"
    /\ lastArg' = NoArg
    /\ loadingProgress' = percent
    /\ hist' = HistQuiet
    /\ UNCHANGED << objs, cur, spatialIndex, isLoading, loadingFile,
                    isProcessingSegmentation, segmentedPointCloud, runs,
                    annVars, chunkSize, cubeSize >>

\* loadPLYFile resolved: the rest of the try block and the finally block
LoadFinish ==
    /\ UNCHANGED apiVars
    /\ isLoading
    /\ lastOp' = "loadFinish"
    /\ lastRet' = "void"
    /\ lastArg' = NoArg
    /\ SetHeap(Append(objs, LoadedData(loadingFile)), Len(objs) + 1, runs)
    /\ spatialIndex' = [present |-> TRUE] @@ buildSpatialIndex(FilePositions(loadingFile))
    /\ isLoading' = FALSE
    /\ loadingFile' = 0
    /\ loadingProgress' = NoProgress
    /\ hist' = NoHist
    /\ UNCHANGED << isProcessingSegmentation, segmentedPointCloud,
                    annVars, chunkSize, cubeSize >>

\* loadPLYFile rejected: catch and finally
LoadFail ==
    /\ UNCHANGED apiVars
    /\ isLoading
    /\ lastOp' = "loadFail"
    /\ lastRet' = "throws"
    /\ hist' = HistQuiet
    /\ lastArg' = NoArg
    /\ isLoading' = FALSE
    /\ loadingFile' = 0
    /\ loadingProgress' = NoProgress
    /\ UNCHANGED << objs, cur, spatialIndex, isProcessingSegmentation,
                    segmentedPointCloud, runs, annVars, chunkSize, cubeSize >>

cleanup ==
    /\ UNCHANGED apiVars
    /\ lastOp' = "cleanup"
    /\ lastRet' = "void"
    /\ lastArg' = NoArg
    /\ SetHeap(Append(objs, NullData), Len(objs) + 1, runs)
    /\ spatialIndex' = NoIndex
    /\ segmentedPointCloud' = NoSegmentation
    /\ hist' = NoHist
    /\ UNCHANGED << isLoading, loadingFile, loadingProgress, isProcessingSegmentation,
                    annVars, chunkSize, cubeSize >>

\* store.resetColors / PointCloudService.resetColors: originalColors copied
\* over currentColors
resetColors ==
    /\ UNCHANGED apiVars
    /\ lastOp' = "resetColors"
    /\ lastArg' = NoArg
    /\ IF ~pointCloudData.geometry
       THEN /\ lastRet' = "void"
            /\ hist' = HistQuiet
            /\ UNCHANGED << objs, cur, runs >>
       ELSE /\ lastRet' = "void"
            /\ hist' = NoHist
            /\ SetHeap([objs EXCEPT ![cur].currentColors = pointCloudData.originalColors],
                       cur, Disturb(runs, cur, 0))
    /\ UNCHANGED << spatialIndex, isLoading, loadingFile, loadingProgress,
                    isProcessingSegmentation, segmentedPointCloud,
                    annVars, chunkSize, cubeSize >>

(***************************************************************************)
(* PointCloudService.applySegmentation (chunked) and the store's wrapper   *)
(***************************************************************************)
\* the chunk loop on buffers where originalColors is the geometry's colour
\* array too
ProcessChunkAliased(data, labels, currentIndex, endIndex) ==
    LET written == [i \in DOMAIN data.currentColors |->
                       IF i \in currentIndex..(endIndex - 1)
                       THEN (IF labels[i + 1] # 0 THEN getColorFromIndex(labels[i + 1])
                             ELSE data.originalColors[i])
                       ELSE data.currentColors[i]]
    IN  [data EXCEPT !.currentColors = written, !.originalColors = written]

\* a chunk that leaves label-0 points as they are
ChunkColorKeep(data, labels, i) ==
    IF labels[i + 1] # 0 THEN getColorFromIndex(labels[i + 1]) ELSE data.currentColors[i]

\* the colour processNextChunk writes for point i
ChunkColor(data, labels, i) ==
    IF labels[i + 1] # 0 THEN getColorFromIndex(labels[i + 1]) ELSE data.originalColors[i]

\* a chunk loop that starts one index late
ChunkRangeLate(currentIndex, endIndex) == (currentIndex + 1)..(endIndex - 1)

\* the indices one call of processNextChunk loops over
ChunkRange(currentIndex, endIndex) == currentIndex..(endIndex - 1)

\* a chunk that covers no point
EndIndexStuck(currentIndex, size, pointCount) == Min2(currentIndex, pointCount)

\* a chunk that runs to the end of the buffer
EndIndexWhole(currentIndex, size, pointCount) == pointCount

\* const endIndex = Math.min(currentIndex + chunkSize, data.pointCount)
EndIndex(currentIndex, size, pointCount) == Min2(currentIndex + size, pointCount)

\* completion decided one point early
FinishedEarly(currentIndex, pointCount) == ~(currentIndex + 1 < pointCount)

\* the else branch of `if (currentIndex < data.pointCount)`
Finished(currentIndex, pointCount) == ~(currentIndex < pointCount)

\* the quotient of 0 / 0
NaN == [nan |-> TRUE, num |-> 0, den |-> 0]

\* const progress = currentIndex / data.pointCount, as a fraction
Progress(currentIndex, pointCount) ==
    IF pointCount = 0 THEN NaN
    ELSE [nan |-> FALSE, num |-> currentIndex, den |-> pointCount]

\* the calls one processNextChunk makes after its loop, in order; the
\* throttled updateBuffer between chunks (every 500 ms) only marks the colour
\* attribute for upload and is left out
ChunkCalls(currentIndex, pointCount) ==
    << "onProgress" >>
        \o (IF currentIndex = pointCount THEN << "updateBuffer" >> ELSE << >>)
        \o (IF Finished(currentIndex, pointCount)
            THEN << "updateBuffer", "onComplete" >>
            ELSE << "setTimeout" >>)

\* the single-pass applySegmentation: its for loop from index i on
RECURSIVE SinglePassFrom(_, _, _)
SinglePassFrom(data, labels, i) ==
    IF ~(i < data.pointCount) THEN data
    ELSE SinglePassFrom(
            [data EXCEPT !.currentColors[i] =
                IF labels[i + 1] # 0
                THEN getColorFromIndex(labels[i + 1])
                ELSE data.originalColors[i]],
            labels, i + 1)

\* the single-pass applySegmentation: [ok, data]
SinglePass(data, labels) ==
    IF ~data.geometry THEN [ok |-> FALSE, data |-> data]
    ELSE IF Len(labels) # data.pointCount THEN [ok |-> FALSE, data |-> data]
    ELSE [ok |-> TRUE, data |-> SinglePassFrom(data, labels, 0)]

\* the for loop of processNextChunk
ProcessChunk(data, labels, currentIndex, endIndex) ==
    [data EXCEPT !.currentColors =
        [i \in DOMAIN data.currentColors |->
            IF i \in ChunkRange(currentIndex, endIndex)
            THEN ChunkColor(data, labels, i)
            ELSE data.currentColors[i]]]

\* Math.floor(progress * 100) with progress = currentIndex / pointCount
ProgressPercent(currentIndex, pointCount) == (currentIndex * 100) \div pointCount

(***************************************************************************)
(* Markers (annotation.store.ts) as far as the colour applier's completion *)
(* reaches them, and the api store's calls waiting for a run               *)
(***************************************************************************)
MarkerIds(ms, us, rs) ==
    {ms[i].id : i \in DOMAIN ms} \cup {us[i].markerId : i \in DOMAIN us}
        \cup {rs[i].markerId : i \in DOMAIN rs}

\* createMarker's id (`marker-${Date.now()}-${random}`): one not seen before
NewMarkerId(ms, us, rs) ==
    CHOOSE n \in 1..(Len(ms) + Len(us) + Len(rs) + 1) :
        /\ n \notin MarkerIds(ms, us, rs)
        /\ \A m \in 1..(n - 1) : m \in MarkerIds(ms, us, rs)

createMarker(ms, id, position, objectIdx) ==
    Append(ms, [id |-> id, position |-> position, objectIdx |-> objectIdx])

\* recreateMarkers: clearMarkers, then one createMarker per clicked point
RECURSIVE RecreateFrom(_, _, _, _, _)
RecreateFrom(cps, i, ms, us, rs) ==
    IF i > Len(cps) THEN ms
    ELSE RecreateFrom(cps, i + 1,
             createMarker(ms, NewMarkerId(ms, us, rs), cps[i].position, cps[i].objectIdx),
             us, rs)

recreateMarkers(cps, us, rs) == RecreateFrom(cps, 1, <<>>, us, rs)

\* runSegmentation waiting for the run it started (older variant of the
\* store: the call is not awaited)
ApplyNotAwaited == FALSE

\* `await pointCloudStore.applySegmentation(...)` in runSegmentation and
\* runPartSegmentation
ApplyAwaited == TRUE

\* the finally block of runSegmentation / runPartSegmentation for call c
ApiFinally(c) ==
    /\ isProcessing' = FALSE
    /\ operationLock' = FALSE
    /\ apiCalls' = [i \in 1..(Len(apiCalls) - 1) |->
                       IF i < c THEN apiCalls[i] ELSE apiCalls[i + 1]]

\* the api calls awaiting the promise of run r
Awaiting(r) == {c \in DOMAIN apiCalls : apiCalls[c].pc = "applying" /\ apiCalls[c].run = r}

\* run r completed and left `runs`: the calls awaiting it go through the
\* rest of their try block and their finally block
ApiSettle(r) ==
    /\ apiCalls' = LET kept == SelectSeq(apiCalls,
                                LAMBDA c : ~(c.pc = "applying" /\ c.run = r))
                   IN  [i \in DOMAIN kept |->
                           IF kept[i].run > r
                           THEN [kept[i] EXCEPT !.run = kept[i].run - 1]
                           ELSE kept[i]]
    /\ IF Awaiting(r) # {}
       THEN isProcessing' = FALSE /\ operationLock' = FALSE
       ELSE UNCHANGED << isProcessing, operationLock >>

\* the onComplete callback the store passes; the viewer's watcher of
\* segmentedPointCloud recreates the markers while a cloud is loaded, and so
\* does an api call that awaited the run
OnComplete(labels, awaited) ==
    /\ isProcessingSegmentation' = FALSE
    /\ loadingProgress' = NoProgress
    /\ segmentedPointCloud' = [isSet |-> TRUE, segmentation |-> labels]
    /\ markers' = IF awaited \/ pointCloudData.pointCount > 0
                  THEN recreateMarkers(clickedPoints, undoStack, redoStack)
                  ELSE markers

\* history: what a chunk did: the run it belongs to and the object it wrote
\* (r: its place in `runs`, 0 inside the call) and the range it covered
ChunkArg(stale, done, run, data1, r, from, to) ==
    [kind |-> "chunk", stale |-> stale, completed |-> done, clean |-> run.clean,
     labels |-> run.labels, start |-> run.start, data |-> data1,
     run |-> r, from |-> from, to |-> to,
     progress |-> Progress(to, data1.pointCount),
     calls |-> ChunkCalls(to, data1.pointCount)]

\* store.applySegmentation(segmentation): the service's checks and the first
\* chunk run inside the call.  c is the api call whose continuation made the
\* call (0: called directly, as handleMetadataLoad does); when the promise
\* is settled inside the call, that continuation goes on to its end.
StoreApply(labels, c) ==
    /\ Len(runs) < MaxRuns
    /\ lastOp' = "applySegmentation"
    /\ UNCHANGED << spatialIndex, isLoading, loadingFile, clickedPoints, undoStack,
                    redoStack, isUndoInProgress, isRedoInProgress, undoTimers,
                    redoTimers, chunkSize, cubeSize >>
    /\ IF ~pointCloudData.geometry
       THEN /\ lastRet' = "false"
            /\ lastArg' = [kind |-> "rejected", labels |-> labels]
            /\ hist' = HistQuiet
            /\ markers' = IF c # 0
                          THEN recreateMarkers(clickedPoints, undoStack, redoStack)
                          ELSE markers
            /\ IF c # 0 THEN ApiFinally(c) ELSE UNCHANGED apiVars
            /\ UNCHANGED << objs, cur, runs, loadingProgress, isProcessingSegmentation,
                            segmentedPointCloud >>
       ELSE IF Len(labels) # pointCloudData.pointCount
       THEN /\ lastRet' = "true"
            /\ lastArg' = [kind |-> "mismatch", labels |-> labels,
                           calls |-> << "onComplete" >>]
            /\ OnComplete(labels, c # 0)
            /\ IF c # 0 THEN ApiFinally(c) ELSE UNCHANGED apiVars
            /\ hist' = HistQuiet
            /\ UNCHANGED << objs, cur, runs >>
       ELSE LET n == pointCloudData.pointCount
                endIndex == EndIndex(0, chunkSize, n)
                data1 == ProcessChunk(pointCloudData, labels, 0, endIndex)
                run == [data |-> cur, labels |-> labels, currentIndex |-> endIndex,
                        start |-> pointCloudData.currentColors, clean |-> TRUE]
                done == Finished(endIndex, n)
            IN  /\ hist' = NoHist
                /\ lastArg' = ChunkArg(FALSE, done, run, data1, 0, 0, endIndex)
                /\ IF done
                   THEN /\ lastRet' = "true"
                        /\ OnComplete(labels, c # 0)
                        /\ IF c # 0 THEN ApiFinally(c) ELSE UNCHANGED apiVars
                        /\ SetHeap([objs EXCEPT ![cur] = data1], cur, Disturb(runs, cur, 0))
                   ELSE /\ lastRet' = "pending"
                        /\ isProcessingSegmentation' = TRUE
                        /\ loadingProgress' = ProgressPercent(endIndex, n)
                        /\ UNCHANGED segmentedPointCloud
                        /\ SetHeap([objs EXCEPT ![cur] = data1], cur,
                                   Append(Disturb(runs, cur, 0), run))
                        /\ IF c = 0
                           THEN UNCHANGED << markers, apiVars >>
                           ELSE IF ApplyAwaited
                           THEN /\ apiCalls' = [apiCalls EXCEPT ![c].pc = "applying",
                                                                ![c].run = Len(runs) + 1]
                                /\ UNCHANGED << markers, isProcessing, operationLock >>
                           ELSE /\ markers' = recreateMarkers(clickedPoints, undoStack,
                                                              redoStack)
                                /\ ApiFinally(c)

\* pointCloudStore.applySegmentation called directly
applySegmentation(labels) == StoreApply(labels, 0)

\* a timer tick running processNextChunk of run r
Chunk(r) ==
    LET run == runs[r]
        data == objs[run.data]
        n == data.pointCount
        endIndex == EndIndex(run.currentIndex, chunkSize, n)
        data1 == ProcessChunk(data, run.labels, run.currentIndex, endIndex)
        done == Finished(endIndex, n)
        others == Disturb(runs, run.data, r)
    IN  /\ lastOp' = "chunk"
        /\ lastArg' = ChunkArg(run.data # cur, done, run, data1, r, run.currentIndex, endIndex)
        /\ hist' = IF run.data = cur
                   THEN NoHist
                   ELSE HistQuiet
        /\ UNCHANGED << spatialIndex, isLoading, loadingFile, clickedPoints, undoStack,
                        redoStack, isUndoInProgress, isRedoInProgress, undoTimers,
                        redoTimers, chunkSize, cubeSize >>
        /\ IF done
           THEN /\ lastRet' = "complete"
                /\ OnComplete(run.labels, Awaiting(r) # {})
                /\ ApiSettle(r)
                /\ SetHeap([objs EXCEPT ![run.data] = data1], cur, RemoveAt(others, r))
           ELSE /\ lastRet' = "scheduled"
                /\ loadingProgress' = ProgressPercent(endIndex, n)
                /\ UNCHANGED << isProcessingSegmentation, segmentedPointCloud, markers,
                                apiVars >>
                /\ SetHeap([objs EXCEPT ![run.data] = data1], cur,
                           [others EXCEPT ![r].currentIndex = endIndex])

(***************************************************************************)
(* annotation.store.ts                                                     *)
(*                                                                         *)
(* A history entry (SelectionHistoryAction) is a record; `id` stands for   *)
(* the identity of the JavaScript object, hasAffected for                  *)
(* affectedPointIndices / previousColors being set, markerId 0 for an      *)
(* undefined markerId.  isUndoRedoOperation is true only inside undo()     *)
(* and redo(), so it is an argument of the operators they call.            *)
(***************************************************************************)
EntryIds(us, rs) == {us[i].id : i \in DOMAIN us} \cup {rs[i].id : i \in DOMAIN rs}

\* identity of a newly allocated entry: the first one no live entry has
NewEntryId(us, rs) ==
    CHOOSE n \in 1..(Len(us) + Len(rs) + 1) :
        /\ n \notin EntryIds(us, rs)
        /\ \A m \in 1..(n - 1) : m \in EntryIds(us, rs)

removeMarker(ms, markerId) == SelectSeq(ms, LAMBDA m : m.id # markerId)

\* addClickPoint without `redoStack.value = []`
addClickPointKeepsRedo(st, position, objectIdx, index, markerId, fromUndo, isUndoRedoOperation) ==
    LET clickPoint == [position |-> position, objectIdx |-> objectIdx,
                       timeIdx |-> Len(st.clickedPoints), index |-> index]
        pushed == Append(st.clickedPoints, clickPoint)
    IN  IF ~fromUndo /\ ~isUndoRedoOperation
        THEN [clickedPoints |-> pushed,
              redoStack |-> st.redoStack,
              undoStack |-> Append(st.undoStack,
                  [id |-> NewEntryId(st.undoStack, st.redoStack), clickPoint |-> clickPoint,
                   markerId |-> markerId, hasAffected |-> FALSE,
                   affectedPointIndices |-> <<>>, previousColors |-> <<>>])]
        ELSE [st EXCEPT !.clickedPoints = pushed]

\* st = [clickedPoints, undoStack, redoStack]
addClickPoint(st, position, objectIdx, index, markerId, fromUndo, isUndoRedoOperation) ==
    LET clickPoint == [position |-> position, objectIdx |-> objectIdx,
                       timeIdx |-> Len(st.clickedPoints), index |-> index]
        pushed == Append(st.clickedPoints, clickPoint)
    IN  IF ~fromUndo /\ ~isUndoRedoOperation
        THEN [clickedPoints |-> pushed,
              redoStack |-> <<>>,
              undoStack |-> Append(st.undoStack,
                  [id |-> NewEntryId(st.undoStack, <<>>), clickPoint |-> clickPoint,
                   markerId |-> markerId, hasAffected |-> FALSE,
                   affectedPointIndices |-> <<>>, previousColors |-> <<>>])]
        ELSE [st EXCEPT !.clickedPoints = pushed]

\* the colour buffer after writing `color` at every index of pointIndices
Paint(colors, pointIndices, color) ==
    [i \in DOMAIN colors |->
        IF \E k \in DOMAIN pointIndices : pointIndices[k] = i THEN color ELSE colors[i]]

\* result: [undoStack, data, count]
applySelection(us, data, index, size, position, objectIdx, fromUndo, isUndoRedoOperation) ==
    IF ~data.geometry \/ ~index.present
    THEN [undoStack |-> us, data |-> data, count |-> 0]
    ELSE IF objectIdx = 0
    THEN [undoStack |-> us, data |-> data, count |-> 0]
    ELSE
      LET color == getSelectionColor(IF objectIdx = 0 THEN "background" ELSE "object",
                                     objectIdx)
          pointIndices == findPointsInCube(index, position, size)
          previousColors == [i \in DOMAIN pointIndices |-> data.currentColors[pointIndices[i]]]
          capture == ~fromUndo /\ ~isUndoRedoOperation /\ Len(pointIndices) > 0
          us1 == IF capture /\ Len(us) > 0
                 THEN [us EXCEPT ![Len(us)].hasAffected = TRUE,
                                 ![Len(us)].affectedPointIndices = pointIndices,
                                 ![Len(us)].previousColors = previousColors]
                 ELSE us
      IN  [undoStack |-> us1,
           data |-> [data EXCEPT !.currentColors = Paint(data.currentColors, pointIndices, color)],
           count |-> Len(pointIndices)]

\* the loop of restorePointColors from position i on; a write past the end
\* of the Float32Array has no effect
RECURSIVE RestoreFrom(_, _, _, _)
RestoreFrom(buf, indices, colors, i) ==
    IF i > Len(indices) THEN buf
    ELSE RestoreFrom(IF indices[i] \in DOMAIN buf
                     THEN [buf EXCEPT ![indices[i]] = colors[i]]
                     ELSE buf,
                     indices, colors, i + 1)

\* restorePointColors writing the file's colours instead of the captured ones
restorePointColorsOriginal(data, indices, colors) ==
    IF ~data.geometry THEN data
    ELSE [data EXCEPT !.currentColors =
             RestoreFrom(data.currentColors, indices,
                         [i \in DOMAIN indices |-> data.originalColors[indices[i]]], 1)]

restorePointColors(data, indices, colors) ==
    IF ~data.geometry THEN data
    ELSE [data EXCEPT !.currentColors = RestoreFrom(data.currentColors, indices, colors, 1)]

\* clickedPoints.findIndex(timeIdx and objectIdx match), 0 when there is none
\* findIndex stopping at the first element
FindClickFirst(cps, clickPoint) == IF cps = << >> THEN 0 ELSE 1

\* findIndex matching on objectIdx alone
FindClickByObject(cps, clickPoint) ==
    LET hits == {i \in DOMAIN cps : cps[i].objectIdx = clickPoint.objectIdx}
    IN  IF hits = {} THEN 0 ELSE CHOOSE i \in hits : \A j \in hits : i <= j

FindClick(cps, clickPoint) ==
    LET hits == {i \in DOMAIN cps : /\ cps[i].timeIdx = clickPoint.timeIdx
                                    /\ cps[i].objectIdx = clickPoint.objectIdx}
    IN  IF hits = {} THEN 0 ELSE CHOOSE i \in hits : \A j \in hits : i <= j

\* undo: const lastAction = undoStack.pop(); redoStack.push(lastAction)
UndoMove(us, rs) ==
    [undoStack |-> SubSeq(us, 1, Len(us) - 1), redoStack |-> Append(rs, us[Len(us)])]

\* redo reading the top of redoStack without popping it
RedoMovePeek(us, rs) ==
    [undoStack |-> Append(us, rs[Len(rs)]), redoStack |-> rs]

\* redo: const action = redoStack.pop(); undoStack.push(action)
RedoMove(us, rs) ==
    [undoStack |-> Append(us, rs[Len(rs)]), redoStack |-> SubSeq(rs, 1, Len(rs) - 1)]

\* redo that does not colour the selection again
RedoSelectionSkipped(us, data, index, size, cp) ==
    [undoStack |-> us, data |-> data, count |-> 0]

\* redo colouring through the capturing path of applySelection
RedoSelectionRecaptures(us, data, index, size, cp) ==
    IF cp.objectIdx # 0
    THEN applySelection(us, data, index, size, cp.position, cp.objectIdx, FALSE, FALSE)
    ELSE [undoStack |-> us, data |-> data, count |-> 0]

\* redo: "Apply selection coloring if object mode"
RedoSelection(us, data, index, size, cp) ==
    IF cp.objectIdx # 0
    THEN applySelection(us, data, index, size, cp.position, cp.objectIdx, TRUE, TRUE)
    ELSE [undoStack |-> us, data |-> data, count |-> 0]

\* a click that colours the cube in every click mode
ClickSelectionAlways(us, data, index, size, position, objectIdx) ==
    LET pointIndices == findPointsInCube(index, position, size)
        color == getSelectionColor(IF objectIdx = 0 THEN "background" ELSE "object",
                                   objectIdx)
    IN  [undoStack |-> us,
         data |-> [data EXCEPT !.currentColors = Paint(data.currentColors, pointIndices, color)],
         count |-> Len(pointIndices)]

\* handleAnnotationClick: "Apply selection coloring" when clickMode is 'object';
\* objectIdx 0 is what the handler passes on in clickMode 'background'
ClickSelection(us, data, index, size, position, objectIdx) ==
    IF objectIdx # 0
    THEN applySelection(us, data, index, size, position, objectIdx, FALSE, FALSE)
    ELSE [undoStack |-> us, data |-> data, count |-> 0]

\* undo's guard looking at its own flag only
UndoGuardOwnFlag == Len(undoStack) = 0 \/ isUndoInProgress

\* `if (undoStack.value.length === 0 || isUndoInProgress.value || isRedoInProgress.value)`
UndoGuard == Len(undoStack) = 0 \/ isUndoInProgress \/ isRedoInProgress

\* redo's guard looking at its own flag only
RedoGuardOwnFlag == Len(redoStack) = 0 \/ isRedoInProgress

RedoGuard == Len(redoStack) = 0 \/ isUndoInProgress \/ isRedoInProgress

WritesColors(entry) == entry.hasAffected /\ pointCloudData.geometry

undo ==
    /\ UNCHANGED apiVars
    /\ lastOp' = "undo"
    /\ UNCHANGED << spatialIndex, isLoading, loadingFile, loadingProgress,
                    isProcessingSegmentation, segmentedPointCloud, chunkSize, cubeSize,
                    isRedoInProgress, redoTimers >>
    /\ IF UndoGuard
       THEN /\ lastRet' = "null"
            /\ lastArg' = NoArg
            /\ hist' = HistIdle
            /\ UNCHANGED << objs, cur, runs, clickedPoints, markers, undoStack, redoStack,
                            isUndoInProgress, undoTimers >>
       ELSE LET lastAction == undoStack[Len(undoStack)]
                data1 == IF lastAction.hasAffected
                         THEN restorePointColors(pointCloudData,
                                  lastAction.affectedPointIndices, lastAction.previousColors)
                         ELSE pointCloudData
                k == FindClick(clickedPoints, lastAction.clickPoint)
                rt == hist.rt
            IN  /\ lastRet' = "action"
                /\ lastArg' = [kind |-> "entry", entry |-> lastAction]
                /\ isUndoInProgress' = TRUE
                /\ undoStack' = UndoMove(undoStack, redoStack).undoStack
                /\ redoStack' = UndoMove(undoStack, redoStack).redoStack
                /\ clickedPoints' = IF k # 0 THEN RemoveAt(clickedPoints, k) ELSE clickedPoints
                /\ markers' = IF lastAction.markerId # 0
                              THEN removeMarker(markers, lastAction.markerId)
                              ELSE markers
                /\ undoTimers' = undoTimers + 1
                /\ SetHeap([objs EXCEPT ![cur] = data1], cur,
                           IF WritesColors(lastAction) THEN Disturb(runs, cur, 0) ELSE runs)
                /\ hist' = [fresh |-> IF WritesColors(lastAction) THEN NoFresh ELSE hist.fresh,
                            undone |-> IF hist.fresh.valid /\ hist.fresh.id = lastAction.id
                                       THEN hist.fresh
                                       ELSE NoFresh,
                            rt |-> IF rt.phase = "clicks"
                                   THEN [phase |-> "undos", n |-> rt.n, k |-> 1,
                                         colors |-> currentColors, stack |-> undoStack]
                                   ELSE IF rt.phase = "undos" /\ rt.k < rt.n
                                   THEN [rt EXCEPT !.k = rt.k + 1]
                                   ELSE NoRt]

redo ==
    /\ UNCHANGED apiVars
    /\ lastOp' = "redo"
    /\ UNCHANGED << spatialIndex, isLoading, loadingFile, loadingProgress,
                    isProcessingSegmentation, segmentedPointCloud, chunkSize, cubeSize,
                    isUndoInProgress, undoTimers >>
    /\ IF RedoGuard
       THEN /\ lastRet' = "null"
            /\ lastArg' = NoArg
            /\ hist' = HistIdle
            /\ UNCHANGED << objs, cur, runs, clickedPoints, markers, undoStack, redoStack,
                            isRedoInProgress, redoTimers >>
       ELSE LET action == redoStack[Len(redoStack)]
                cp == action.clickPoint
                st0 == [clickedPoints |-> clickedPoints] @@ RedoMove(undoStack, redoStack)
                st1 == addClickPoint(st0, cp.position, cp.objectIdx, cp.index,
                                     action.markerId, TRUE, TRUE)
                sel == RedoSelection(st1.undoStack, pointCloudData, spatialIndex, cubeSize, cp)
                newMarkerId == NewMarkerId(markers, undoStack, st0.redoStack)
                rt == hist.rt
            IN  /\ lastRet' = "action"
                /\ lastArg' = [kind |-> "entry", entry |-> action]
                /\ isRedoInProgress' = TRUE
                /\ clickedPoints' = st1.clickedPoints
                /\ redoStack' = st1.redoStack
                /\ undoStack' = [sel.undoStack EXCEPT ![Len(sel.undoStack)].markerId = newMarkerId]
                /\ markers' = createMarker(markers, newMarkerId, cp.position, cp.objectIdx)
                /\ redoTimers' = redoTimers + 1
                /\ SetHeap([objs EXCEPT ![cur] = sel.data], cur,
                           IF sel.count > 0 THEN Disturb(runs, cur, 0) ELSE runs)
                /\ hist' = [fresh |-> IF sel.count > 0 THEN NoFresh ELSE hist.fresh,
                            undone |-> NoFresh,
                            rt |-> IF rt.phase = "undos"
                                   THEN [rt EXCEPT !.phase = "redos", !.n = rt.k, !.k = 1]
                                   ELSE IF rt.phase = "redos" /\ rt.k < rt.n
                                   THEN [rt EXCEPT !.k = rt.k + 1]
                                   ELSE NoRt]

\* the setTimeout callbacks of undo() and redo()
UndoTimer ==
    /\ UNCHANGED apiVars
    /\ undoTimers > 0
    /\ lastOp' = "undoTimer"
    /\ lastRet' = "void"
    /\ lastArg' = NoArg
    /\ isUndoInProgress' = FALSE
    /\ undoTimers' = undoTimers - 1
    /\ hist' = HistIdle
    /\ UNCHANGED << pcVars, chunkSize, cubeSize, clickedPoints, markers, undoStack,
                    redoStack, isRedoInProgress, redoTimers >>

RedoTimer ==
    /\ UNCHANGED apiVars
    /\ redoTimers > 0
    /\ lastOp' = "redoTimer"
    /\ lastRet' = "void"
    /\ lastArg' = NoArg
    /\ isRedoInProgress' = FALSE
    /\ redoTimers' = redoTimers - 1
    /\ hist' = HistIdle
    /\ UNCHANGED << pcVars, chunkSize, cubeSize, clickedPoints, markers, undoStack,
                    redoStack, isUndoInProgress, undoTimers >>

\* handleAnnotationClick from the marker on, for the target (position, p);
\* info: what the history records about the pointer event
ClickEffects(position, p, objectIdx, info) ==
    /\ UNCHANGED apiVars
    /\ Len(undoStack) < MaxClicks
    /\ Len(clickedPoints) < MaxClicks
    /\ Len(markers) < MaxClicks
    /\ LET markerId == NewMarkerId(markers, undoStack, redoStack)
           st0 == [clickedPoints |-> clickedPoints, undoStack |-> undoStack,
                   redoStack |-> redoStack]
           st1 == addClickPoint(st0, position, objectIdx, p, markerId, FALSE, FALSE)
           sel == ClickSelection(st1.undoStack, pointCloudData, spatialIndex, cubeSize,
                                 position, objectIdx)
           rt == hist.rt
       IN  /\ lastOp' = "click"
           /\ lastRet' = "void"
           /\ lastArg' = [kind |-> "click", objectIdx |-> objectIdx, count |-> sel.count,
                          dropped |-> Len(redoStack)] @@ info
           /\ markers' = createMarker(markers, markerId, position, objectIdx)
           /\ clickedPoints' = st1.clickedPoints
           /\ redoStack' = st1.redoStack
           /\ undoStack' = sel.undoStack
           /\ SetHeap([objs EXCEPT ![cur] = sel.data], cur,
                      IF sel.count > 0 THEN Disturb(runs, cur, 0) ELSE runs)
           /\ hist' = [fresh |-> IF sel.count > 0
                                 THEN [valid |-> TRUE, colors |-> currentColors,
                                       id |-> sel.undoStack[Len(sel.undoStack)].id]
                                 ELSE hist.fresh,
                       undone |-> NoFresh,
                       rt |-> IF objectIdx = 0
                              THEN NoRt
                              ELSE IF rt.phase = "clicks"
                              THEN [rt EXCEPT !.n = rt.n + 1]
                              ELSE [phase |-> "clicks", n |-> 1, k |-> 0,
                                    colors |-> <<>>, stack |-> <<>>]]
    /\ UNCHANGED << spatialIndex, isLoading, loadingFile, loadingProgress,
                    isProcessingSegmentation, segmentedPointCloud, chunkSize, cubeSize,
                    isUndoInProgress, isRedoInProgress, undoTimers, redoTimers >>

NoInfo == [k \in {} |-> 0]

\* PointCloudViewer.handleAnnotationClick once the ray hit was snapped to the
\* stored point p; objectIdx 0 is clickMode 'background'
handleAnnotationClick(p, objectIdx) ==
    /\ ~isLoading
    /\ pointCloudData.geometry
    /\ p \in 0..(pointCloudData.pointCount - 1)
    /\ ClickEffects(pointCloudData.positions[p + 1], p, objectIdx, NoInfo)

\* the target taken from the ray's intersection point itself
RawTarget(nearestPoint, raw) == [position |-> raw, index |-> nearestPoint.index]

\* the target handleAnnotationClick passes on: nearestPoint.position and
\* nearestPoint.index
SnappedTarget(nearestPoint, raw) ==
    [position |-> nearestPoint.position, index |-> nearestPoint.index]

\* PointCloudViewer.handleAnnotationClick(event) as a whole; hits: what the
\* raycaster's intersectObject finds at each of the three thresholds
handleAnnotationClickEvent(hits, objectIdx) ==
    /\ ~isLoading
    /\ LET ray == tryProgressiveRaycast(pointCloudData.geometry, pointCloudData.pointCount,
                                        InitialThreshold, hits)
           nearestPoint == findNearestPoint(spatialIndex, pointCloudData, cubeSize,
                                            ray.result.point, DefaultMaxDistance)
           info == [raw |-> ray.result, attempts |-> ray.attempts]
       IN  IF ray.result.hit /\ nearestPoint.found
           THEN LET target == SnappedTarget(nearestPoint, ray.result.point)
                IN  ClickEffects(target.position, target.index, objectIdx, info)
           ELSE /\ lastOp' = "clickMiss"
                /\ lastRet' = "void"
                /\ lastArg' = [kind |-> "miss"] @@ info
                /\ hist' = HistQuiet
                /\ UNCHANGED << pcVars, annVars, apiVars, chunkSize, cubeSize >>

\* annotationStore.applySelection(position, objectIdx) called on its own,
\* outside undo() and redo()
applySelectionCall(position, objectIdx) ==
    LET sel == applySelection(undoStack, pointCloudData, spatialIndex, cubeSize,
                              position, objectIdx, FALSE, FALSE)
    IN  /\ lastOp' = "applySelection"
        /\ lastRet' = "count"
        /\ lastArg' = [kind |-> "selection", position |-> position,
                       objectIdx |-> objectIdx, size |-> cubeSize, count |-> sel.count]
        /\ hist' = IF sel.count > 0 THEN NoHist ELSE HistQuiet
        /\ undoStack' = sel.undoStack
        /\ SetHeap([objs EXCEPT ![cur] = sel.data], cur,
                   IF sel.count > 0 THEN Disturb(runs, cur, 0) ELSE runs)
        /\ UNCHANGED << spatialIndex, isLoading, loadingFile, loadingProgress,
                        isProcessingSegmentation, segmentedPointCloud, chunkSize, cubeSize,
                        clickedPoints, markers, redoStack, isUndoInProgress,
                        isRedoInProgress, undoTimers, redoTimers, apiVars >>

clearClickPoints ==
    /\ UNCHANGED apiVars
    /\ lastOp' = "clearClickPoints"
    /\ lastRet' = "void"
    /\ lastArg' = NoArg
    /\ clickedPoints' = <<>>
    /\ undoStack' = <<>>
    /\ redoStack' = <<>>
    /\ hist' = NoHist
    /\ UNCHANGED << pcVars, chunkSize, cubeSize, markers,
                    isUndoInProgress, isRedoInProgress, undoTimers, redoTimers >>

\* reset: clearClickPoints and clearMarkers
reset ==
    /\ UNCHANGED apiVars
    /\ lastOp' = "reset"
    /\ lastRet' = "void"
    /\ lastArg' = NoArg
    /\ clickedPoints' = <<>>
    /\ undoStack' = <<>>
    /\ redoStack' = <<>>
    /\ markers' = <<>>
    /\ hist' = NoHist
    /\ UNCHANGED << pcVars, chunkSize, cubeSize,
                    isUndoInProgress, isRedoInProgress, undoTimers, redoTimers >>

\* the cube-size slider (v-model on uiStore.cubeSize)
SetCubeSize(c) ==
    /\ UNCHANGED apiVars
    /\ c # cubeSize
    /\ lastOp' = "setCubeSize"
    /\ lastRet' = "void"
    /\ lastArg' = NoArg
    /\ cubeSize' = c
    /\ hist' = HistQuiet
    /\ UNCHANGED << pcVars, annVars, chunkSize >>

(***************************************************************************)
(* api.store.ts: runSegmentation, runPartSegmentation                      *)
(*                                                                         *)
(* A call suspended at an await is a record of apiCalls: pc "request"      *)
(* while the server's answer is awaited, pc "applying" with the position   *)
(* of its run in `runs` while applySegmentation's promise is awaited.      *)
(***************************************************************************)
SegmentationCalls == {"runSegmentation", "runPartSegmentation"}

\* hasClickData: annotationStore.clickCount > 0
hasClickData == Len(clickedPoints) > 0

\* `if (operationLock.value || isProcessing.value)`
ApiBusy == operationLock \/ isProcessing

\* runSegmentation / runPartSegmentation up to the await of the request
runSegmentation(kind) ==
    /\ Len(apiCalls) < MaxCalls
    /\ lastOp' = kind
    /\ lastArg' = NoArg
    /\ hist' = HistQuiet
    /\ UNCHANGED << pcVars, annVars, chunkSize, cubeSize >>
    /\ IF ~hasClickData \/ ApiBusy
       THEN /\ lastRet' = "false"
            /\ UNCHANGED apiVars
       ELSE /\ lastRet' = "awaiting"
            /\ operationLock' = TRUE
            /\ isProcessing' = TRUE
            /\ apiCalls' = Append(apiCalls, [kind |-> kind, pc |-> "request", run |-> 0])

\* the request of call c failed or its answer holds no segmentedPointCloud:
\* catch and finally
ApiError(c) ==
    /\ apiCalls[c].pc = "request"
    /\ lastOp' = "apiError"
    /\ lastRet' = "throws"
    /\ lastArg' = NoArg
    /\ hist' = HistQuiet
    /\ ApiFinally(c)
    /\ UNCHANGED << pcVars, annVars, chunkSize, cubeSize >>

\* the server's answer to call c arrived: applySegmentation is called
ApiResponse(c, labels) ==
    /\ apiCalls[c].pc = "request"
    /\ StoreApply(labels, c)

(***************************************************************************)
(* The control panel's handleMetadataLoad                                  *)
(***************************************************************************)
\* the entries of click_data a metadata file can hold: the id and obj_idx of
\* a click placed on the point of file 1 with that id
MetadataClicks == {[id |-> 0, obj_idx |-> o] : o \in ObjectIdxs}
MetadataFiles ==
    {<< c >> : c \in MetadataClicks}
        \cup {<< c, d >> : c \in MetadataClicks, d \in MetadataClicks}

\* the loop over metadata.click_data: addClickPoint without a marker id,
\* createMarkerForClick, applySelection unless the click is a background click
RECURSIVE MetadataLoop(_, _, _)
MetadataLoop(st, clickData, i) ==
    IF i > Len(clickData) THEN st
    ELSE LET position == FilePositions(1)[clickData[i].id + 1]
             objectIdx == clickData[i].obj_idx
             st1 == addClickPoint([clickedPoints |-> st.clickedPoints,
                                   undoStack |-> st.undoStack,
                                   redoStack |-> st.redoStack],
                                  position, objectIdx, clickData[i].id, 0, FALSE, FALSE)
             ms == createMarker(st.markers,
                                NewMarkerId(st.markers, st1.undoStack, st1.redoStack),
                                position, objectIdx)
             sel == ClickSelection(st1.undoStack, st.data, spatialIndex, cubeSize,
                                   position, objectIdx)
         IN  MetadataLoop([clickedPoints |-> st1.clickedPoints,
                           undoStack |-> sel.undoStack,
                           redoStack |-> st1.redoStack,
                           markers |-> ms,
                           data |-> sel.data,
                           count |-> st.count + sel.count],
                          clickData, i + 1)

\* handleMetadataLoad once the file was read and parsed: the stores are
\* reset and the clicks of the file are created again
handleMetadataLoad(clickData) ==
    /\ UNCHANGED apiVars
    /\ Len(clickData) <= MaxClicks
    /\ LET st == MetadataLoop([clickedPoints |-> <<>>, undoStack |-> <<>>,
                               redoStack |-> <<>>, markers |-> <<>>,
                               data |-> pointCloudData, count |-> 0],
                              clickData, 1)
       IN  /\ lastOp' = "handleMetadataLoad"
           /\ lastRet' = "void"
           /\ lastArg' = [kind |-> "metadata", count |-> st.count]
           /\ clickedPoints' = st.clickedPoints
           /\ undoStack' = st.undoStack
           /\ redoStack' = st.redoStack
           /\ markers' = st.markers
           /\ SetHeap([objs EXCEPT ![cur] = st.data], cur,
                      IF st.count > 0 THEN Disturb(runs, cur, 0) ELSE runs)
           /\ hist' = NoHist
    /\ UNCHANGED << spatialIndex, isLoading, loadingFile, loadingProgress,
                    isProcessingSegmentation, segmentedPointCloud, chunkSize, cubeSize,
                    isUndoInProgress, isRedoInProgress, undoTimers, redoTimers >>

(***************************************************************************)
(* api.store.ts uploadPointCloud and the control panel's handleFileUpload  *)
(*                                                                         *)
(* A handleFileUpload suspended at the await of the upload request is a    *)
(* record of apiCalls with pc "upload" and the file it was given.          *)
(***************************************************************************)
\* the synchronous start of loadPointCloud(f), as LoadStart computes it
LoadBegin(f) ==
    IF isLoading
    THEN UNCHANGED << isLoading, loadingFile, loadingProgress >>
    ELSE /\ isLoading' = TRUE
         /\ loadingFile' = f
         /\ loadingProgress' = 0

\* handleFileUpload(file) up to its first suspension: uploadPointCloud
\* returns false at once while the lock is held and the handler goes on to
\* loadPointCloud; otherwise the handler waits for the upload request
handleFileUpload(f) ==
    /\ Len(apiCalls) < MaxCalls
    /\ lastOp' = "handleFileUpload"
    /\ lastArg' = NoArg
    /\ hist' = HistQuiet
    /\ UNCHANGED << objs, cur, spatialIndex, isProcessingSegmentation, runs,
                    annVars, chunkSize, cubeSize >>
    /\ IF ApiBusy
       THEN /\ lastRet' = "false"
            /\ UNCHANGED apiVars
            /\ LoadBegin(f)
            /\ segmentedPointCloud' =
                   IF isLoading THEN segmentedPointCloud ELSE NoSegmentation
       ELSE /\ lastRet' = "awaiting"
            /\ operationLock' = TRUE
            /\ isProcessing' = TRUE
            /\ apiCalls' = Append(apiCalls, [kind |-> "uploadPointCloud", pc |-> "upload",
                                             run |-> 0, file |-> f])
            /\ UNCHANGED << isLoading, loadingFile, loadingProgress,
                            segmentedPointCloud >>

\* the upload request of call c succeeded: uploadPointCloud clears
\* segmentedPointCloud, resets the ui and annotation stores, releases the
\* lock and returns true; handleFileUpload goes on to loadPointCloud
UploadDone(c) ==
    /\ apiCalls[c].pc = "upload"
    /\ lastOp' = "uploadDone"
    /\ lastRet' = "true"
    /\ lastArg' = NoArg
    /\ hist' = NoHist
    /\ segmentedPointCloud' = NoSegmentation
    /\ clickedPoints' = <<>>
    /\ undoStack' = <<>>
    /\ redoStack' = <<>>
    /\ markers' = <<>>
    /\ ApiFinally(c)
    /\ LoadBegin(apiCalls[c].file)
    /\ UNCHANGED << objs, cur, spatialIndex, isProcessingSegmentation, runs,
                    isUndoInProgress, isRedoInProgress, undoTimers, redoTimers,
                    chunkSize, cubeSize >>

\* the upload request of call c failed: uploadPointCloud rethrows after its
\* finally block and handleFileUpload alerts without loading
UploadFail(c) ==
    /\ apiCalls[c].pc = "upload"
    /\ lastOp' = "uploadFail"
    /\ lastRet' = "throws"
    /\ lastArg' = NoArg
    /\ hist' = HistQuiet
    /\ ApiFinally(c)
    /\ UNCHANGED << pcVars, annVars, chunkSize, cubeSize >>

(***************************************************************************)
(* The grid index and the nearest-point search on their own: an index      *)
(* built with an explicit cell size over a point set, then queried         *)
(***************************************************************************)
IndexPoints == {<<x, y, z>> : x \in (0 - MaxCoord)..MaxCoord, y \in {0 - 1, 0}, z \in {0, 1}}
PointSets ==
    {<<>>} \cup {<<a>> : a \in IndexPoints}
        \cup {<<a, b>> : a \in IndexPoints, b \in IndexPoints}
CellSizes == {2, 3}
QueryCentres == {<<x, 0, 0>> : x \in {0 - 1, 0, 1}}
HalfWidths == 0..(MaxCoord + 1)
MaxDistances == {1, 2}

\* a loaded cloud whose geometry holds the points ps
PointSetData(ps) ==
    [file |-> 0, pointCount |-> Len(ps), positions |-> ps,
     originalColors |-> [i \in 0..(Len(ps) - 1) |-> <<i + 1, i + 1, i + 1>>],
     currentColors |-> [i \in 0..(Len(ps) - 1) |-> <<i + 1, i + 1, i + 1>>],
     geometry |-> TRUE]

\* buildSpatialIndex(geometry, cellSize): new GridSpatialIndexUtil(cellSize)
\* and build(positions)
BuildIndex(cellSize) ==
    /\ pointCloudData.geometry
    /\ lastOp' = "build"
    /\ lastRet' = "void"
    /\ lastArg' = NoArg
    /\ hist' = HistQuiet
    /\ spatialIndex' = [present |-> TRUE] @@ build(pointCloudData.positions, cellSize)
    /\ UNCHANGED << objs, cur, isLoading, loadingFile, loadingProgress,
                    isProcessingSegmentation, segmentedPointCloud, runs,
                    annVars, apiVars, chunkSize, cubeSize >>

\* spatialIndex.build(positions) on the index object already in place
RebuildIndex ==
    /\ pointCloudData.geometry
    /\ spatialIndex.present
    /\ lastOp' = "buildAgain"
    /\ lastRet' = "void"
    /\ lastArg' = NoArg
    /\ hist' = HistQuiet
    /\ spatialIndex' = [present |-> TRUE]
                           @@ buildAgain(spatialIndex, pointCloudData.positions)
    /\ UNCHANGED << objs, cur, isLoading, loadingFile, loadingProgress,
                    isProcessingSegmentation, segmentedPointCloud, runs,
                    annVars, apiVars, chunkSize, cubeSize >>

\* spatialIndex.findPointsInCube(position, size)
QueryCube(position, size) ==
    /\ spatialIndex.present
    /\ lastOp' = "findPointsInCube"
    /\ lastRet' = "indices"
    /\ lastArg' = [kind |-> "query", position |-> position, size |-> size,
                   returns |-> findPointsInCubeReturns(spatialIndex, position, size),
                   result |-> findPointsInCube(spatialIndex, position, size)]
    /\ hist' = HistQuiet
    /\ UNCHANGED << pcVars, annVars, apiVars, chunkSize, cubeSize >>

\* findNearestPoint(position, maxDistance)
NearestQuery(position, maxDistance) ==
    /\ lastOp' = "findNearestPoint"
    /\ lastRet' = "result"
    /\ lastArg' = [kind |-> "nearest", position |-> position,
                   maxDistance |-> maxDistance,
                   result |-> findNearestPoint(spatialIndex, pointCloudData, cubeSize,
                                               position, maxDistance)]
    /\ hist' = HistQuiet
    /\ UNCHANGED << pcVars, annVars, apiVars, chunkSize, cubeSize >>

(***************************************************************************)
(* Specifications                                                          *)
(***************************************************************************)
LabelArrays == UNION {[1..n -> Labels] : n \in SegLengths}

Init ==
    /\ objs = << NullData >>
    /\ cur = 1
    /\ spatialIndex = NoIndex
    /\ isLoading = FALSE
    /\ loadingFile = 0
    /\ loadingProgress = NoProgress
    /\ isProcessingSegmentation = FALSE
    /\ segmentedPointCloud = NoSegmentation
    /\ runs = <<>>
    /\ chunkSize \in 1..MaxChunkSize
    /\ cubeSize = DefaultCubeSize
    /\ clickedPoints = <<>>
    /\ markers = <<>>
    /\ undoStack = <<>>
    /\ redoStack = <<>>
    /\ isUndoInProgress = FALSE
    /\ isRedoInProgress = FALSE
    /\ undoTimers = 0
    /\ redoTimers = 0
    /\ operationLock = FALSE
    /\ isProcessing = FALSE
    /\ apiCalls = <<>>
    /\ lastOp = "init"
    /\ lastRet = "void"
    /\ lastArg = NoArg
    /\ hist = NoHist

\* the points of file 1 the user clicks on
ClickTargets == {0, 1}

\* the selection engine on one loaded cloud, fixed cube size
InitHistory == Init /\ chunkSize = 1

NextHistory ==
    \/ (~pointCloudData.geometry /\ LoadStart(1))
    \/ LoadFinish
    \/ \E p \in ClickTargets, o \in ObjectIdxs : handleAnnotationClick(p, o)
    \/ undo
    \/ redo
    \/ UndoTimer
    \/ RedoTimer

SpecHistory == InitHistory /\ [][NextHistory]_vars

\* the 300 ms timers of undo() and redo() fire
CooldownTimersFire == WF_vars(UndoTimer) /\ WF_vars(RedoTimer)

SpecCooldown == SpecHistory /\ CooldownTimersFire

\* the same with clearClickPoints and reset, clicks on one point
NextReset ==
    \/ (~pointCloudData.geometry /\ LoadStart(1))
    \/ LoadFinish
    \/ \E o \in ObjectIdxs : handleAnnotationClick(0, o)
    \/ undo
    \/ redo
    \/ UndoTimer
    \/ RedoTimer
    \/ clearClickPoints
    \/ reset

SpecReset == InitHistory /\ [][NextReset]_vars

\* clicks on every target, undo, redo, clearClickPoints and reset
NextMirror ==
    \/ NextHistory
    \/ clearClickPoints
    \/ reset

SpecMirror == InitHistory /\ [][NextMirror]_vars

\* clicks, undo and redo while the cube-size slider moves
NextCube ==
    \/ (~pointCloudData.geometry /\ LoadStart(1))
    \/ LoadFinish
    \/ \E o \in ObjectIdxs : handleAnnotationClick(0, o)
    \/ \E c \in CubeSizes : SetCubeSize(c)
    \/ undo
    \/ redo
    \/ UndoTimer
    \/ RedoTimer

SpecCube == InitHistory /\ [][NextCube]_vars

\* clicks, applySelection called again on its own, and undo
NextSelect ==
    \/ (~pointCloudData.geometry /\ LoadStart(1))
    \/ LoadFinish
    \/ \E p \in ClickTargets, o \in ObjectIdxs : handleAnnotationClick(p, o)
    \/ (pointCloudData.geometry /\ applySelectionCall(pointCloudData.positions[1], 1))
    \/ undo
    \/ UndoTimer

SpecSelect == InitHistory /\ [][NextSelect]_vars

\* the colour applier: loads, cleanup, resetColors as a second writer, and
\* Apply runs serialized by the caller (api.store holds operationLock until
\* the run's promise resolves)
NextSeg ==
    \/ LoadStart(2)
    \/ LoadFinish
    \/ cleanup
    \/ \E labels \in LabelArrays : (runs = <<>> /\ applySegmentation(labels))
    \/ \E r \in DOMAIN runs : Chunk(r)
    \/ resetColors

SpecSeg == Init /\ [][NextSeg]_vars

\* the server answers of the mixed specification
MixLabels == { <<0, 0, 0>>, <<1, 0, 1>> }

\* clicks, undo and redo while Apply runs are in flight on one loaded cloud
NextMix ==
    \/ (~pointCloudData.geometry /\ LoadStart(2))
    \/ LoadFinish
    \/ \E labels \in MixLabels : (runs = <<>> /\ applySegmentation(labels))
    \/ \E r \in DOMAIN runs : Chunk(r)
    \/ handleAnnotationClick(0, 1)
    \/ undo
    \/ redo
    \/ UndoTimer
    \/ RedoTimer

SpecMix == Init /\ [][NextMix]_vars

\* every writer of the colour buffers on clouds that come and go
NextWriters ==
    \/ (~pointCloudData.geometry /\ LoadStart(2))
    \/ LoadFinish
    \/ (clickedPoints = <<>> /\ redoStack = <<>> /\ runs = <<>> /\ cleanup)
    \/ (runs = <<>> /\ resetColors)
    \/ \E labels \in MixLabels : (runs = <<>> /\ applySegmentation(labels))
    \/ \E r \in DOMAIN runs : Chunk(r)
    \/ handleAnnotationClick(0, 1)
    \/ undo
    \/ redo
    \/ UndoTimer
    \/ RedoTimer

SpecWriters == InitHistory /\ [][NextWriters]_vars

\* runSegmentation and runPartSegmentation calls interleaved with their
\* requests' answers and the chunks of the runs they start, on one cloud
NextApi ==
    \/ (~pointCloudData.geometry /\ LoadStart(2))
    \/ LoadFinish
    \/ handleAnnotationClick(0, 1)
    \/ \E kind \in SegmentationCalls : runSegmentation(kind)
    \/ \E c \in DOMAIN apiCalls : ApiError(c)
    \/ \E c \in DOMAIN apiCalls, labels \in MixLabels : ApiResponse(c, labels)
    \/ \E r \in DOMAIN runs : Chunk(r)

SpecApi == Init /\ [][NextApi]_vars

\* files uploaded through the control panel while clicks, undo and redo go
\* on and a segmentation request may hold the operation lock
NextUpload ==
    \/ handleFileUpload(1)
    \/ \E c \in DOMAIN apiCalls : UploadDone(c)
    \/ \E c \in DOMAIN apiCalls : UploadFail(c)
    \/ LoadFinish
    \/ handleAnnotationClick(0, 1)
    \/ runSegmentation("runSegmentation")
    \/ \E c \in DOMAIN apiCalls : ApiError(c)
    \/ undo
    \/ redo
    \/ UndoTimer
    \/ RedoTimer

SpecUpload == InitHistory /\ [][NextUpload]_vars

\* clicks made in the viewer and clicks restored from a metadata file, undone
\* and redone
NextMetadata ==
    \/ (~pointCloudData.geometry /\ LoadStart(1))
    \/ LoadFinish
    \/ \E clickData \in MetadataFiles : handleMetadataLoad(clickData)
    \/ handleAnnotationClick(0, 1)
    \/ undo
    \/ redo
    \/ UndoTimer
    \/ RedoTimer

SpecMetadata == InitHistory /\ [][NextMetadata]_vars

\* the label arrays of the runs below: for the empty cloud and for file 2
RunLabels == { << >>, <<1, 0, 1>> }

\* runs started by the api store and directly, on a cloud of three points
\* and on the empty cloud, one direct run at a time
NextRuns ==
    \/ \E f \in {2, EmptyFile} : (~pointCloudData.geometry /\ LoadStart(f))
    \/ LoadFinish
    \/ handleAnnotationClick(0, 1)
    \/ \E kind \in SegmentationCalls : runSegmentation(kind)
    \/ \E c \in DOMAIN apiCalls : ApiError(c)
    \/ \E c \in DOMAIN apiCalls, labels \in RunLabels : ApiResponse(c, labels)
    \/ \E labels \in RunLabels : (runs = << >> /\ applySegmentation(labels))
    \/ \E r \in DOMAIN runs : Chunk(r)

\* every pending setTimeout(processNextChunk, 0) fires
TimersFire == \A r \in 1..MaxRuns : WF_vars(r \in DOMAIN runs /\ Chunk(r))

SpecRuns == Init /\ [][NextRuns]_vars /\ TimersFire

\* where a ray can meet the drawn points of file 2: between two stored
\* points, beside one, and far from all
RayPoints == { <<1, 0, 0>>, <<3, 1, 0>>, <<50, 0, 0>> }
RayResults == {NoHit} \cup {[hit |-> TRUE, point |-> p] : p \in RayPoints}

\* pointer clicks on one loaded cloud
NextClick ==
    \/ (~pointCloudData.geometry /\ LoadStart(2))
    \/ LoadFinish
    \/ \E hits \in [1..3 -> RayResults], o \in ObjectIdxs :
           handleAnnotationClickEvent(hits, o)
    \/ \E c \in CubeSizes : SetCubeSize(c)

SpecClick == InitHistory /\ [][NextClick]_vars

\* a cloud of one or two points, loaded, its index not built yet
InitIndex ==
    /\ objs \in {<< PointSetData(ps) >> : ps \in PointSets}
    /\ cur = 1
    /\ spatialIndex = NoIndex
    /\ isLoading = FALSE
    /\ loadingFile = 0
    /\ loadingProgress = NoProgress
    /\ isProcessingSegmentation = FALSE
    /\ segmentedPointCloud = NoSegmentation
    /\ runs = <<>>
    /\ chunkSize = 1
    /\ cubeSize \in CubeSizes
    /\ clickedPoints = <<>>
    /\ markers = <<>>
    /\ undoStack = <<>>
    /\ redoStack = <<>>
    /\ isUndoInProgress = FALSE
    /\ isRedoInProgress = FALSE
    /\ undoTimers = 0
    /\ redoTimers = 0
    /\ operationLock = FALSE
    /\ isProcessing = FALSE
    /\ apiCalls = <<>>
    /\ lastOp = "init"
    /\ lastRet = "void"
    /\ lastArg = NoArg
    /\ hist = NoHist

NextIndex ==
    \/ \E cellSize \in CellSizes : BuildIndex(cellSize)
    \/ \E position \in QueryCentres, size \in HalfWidths : QueryCube(position, size)
    \/ \E position \in QueryCentres, maxDistance \in MaxDistances :
           NearestQuery(position, maxDistance)

SpecIndex == InitIndex /\ [][NextIndex]_vars

\* an index object built, built again, queried and used by clicks
NextRebuild ==
    \/ \E cellSize \in CellSizes : BuildIndex(cellSize)
    \/ RebuildIndex
    \/ \E size \in HalfWidths : QueryCube(<<0, 0, 0>>, size)
    \/ handleAnnotationClick(0, 1)

SpecRebuild == InitIndex /\ [][NextRebuild]_vars

\* the index loadPointCloud builds, over the points of a file and over no
\* point, and cube queries on it
NextLoadedIndex ==
    \/ \E f \in Files \cup {EmptyFile} : (~isLoading /\ LoadStart(f))
    \/ LoadFinish
    \/ \E position \in QueryCentres, size \in HalfWidths : QueryCube(position, size)

SpecLoadedIndex == Init /\ [][NextLoadedIndex]_vars

(***************************************************************************)
(* color.util.ts applied to object indices                                 *)
(***************************************************************************)
ColorIndices == 0..MaxColorIndex
ColorModes == {"object", "background"}

\* the two colour functions called for index k: what applySelection asks
\* for in `mode` and what processNextChunk asks for
ColorQuery(mode, k) ==
    /\ lastOp' = "color"
    /\ lastRet' = "color"
    /\ lastArg' = [kind |-> "color", mode |-> mode, index |-> k,
                   selection |-> getSelectionColor(mode, k),
                   label |-> getColorFromIndex(k)]
    /\ hist' = HistQuiet
    /\ UNCHANGED << pcVars, annVars, apiVars, chunkSize, cubeSize >>

NextColor == \E mode \in ColorModes, k \in ColorIndices : ColorQuery(mode, k)

SpecColor == Init /\ [][NextColor]_vars

\* every operation, every input
Next ==
    \/ \E f \in Files : LoadStart(f)
    \/ \E percent \in {50, 100} : LoadProgress(percent)
    \/ LoadFinish
    \/ LoadFail
    \/ cleanup
    \/ resetColors
    \/ \E labels \in LabelArrays : applySegmentation(labels)
    \/ \E r \in DOMAIN runs : Chunk(r)
    \/ \E p \in 0..3, o \in ObjectIdxs : handleAnnotationClick(p, o)
    \/ undo
    \/ redo
    \/ UndoTimer
    \/ RedoTimer
    \/ clearClickPoints
    \/ reset
    \/ \E c \in CubeSizes : SetCubeSize(c)
    \/ \E kind \in SegmentationCalls : runSegmentation(kind)
    \/ \E c \in DOMAIN apiCalls : ApiError(c)
    \/ \E c \in DOMAIN apiCalls, labels \in LabelArrays : ApiResponse(c, labels)
    \/ \E hits \in [1..3 -> RayResults], o \in ObjectIdxs :
           handleAnnotationClickEvent(hits, o)
    \/ \E position \in QueryCentres, o \in ObjectIdxs : applySelectionCall(position, o)
    \/ \E cellSize \in CellSizes : BuildIndex(cellSize)
    \/ \E position \in QueryCentres, size \in HalfWidths : QueryCube(position, size)
    \/ \E position \in QueryCentres, maxDistance \in MaxDistances :
           NearestQuery(position, maxDistance)
    \/ \E mode \in ColorModes, k \in ColorIndices : ColorQuery(mode, k)
    \/ \E f \in Files : handleFileUpload(f)
    \/ \E c \in DOMAIN apiCalls : UploadDone(c)
    \/ \E c \in DOMAIN apiCalls : UploadFail(c)
    \/ \E clickData \in MetadataFiles : handleMetadataLoad(clickData)
    \/ RebuildIndex

Spec == Init /\ [][Next]_vars


(***************************************************************************)
(* Properties of the selection engine (undo / redo history)                *)
(***************************************************************************)
Top(s) == s[Len(s)]
Front(s) == SubSeq(s, 1, Len(s) - 1)
\* a stack with the marker ids blanked: redo gives the entry a new marker
StripMarker(s) == [i \in DOMAIN s |-> [s[i] EXCEPT !.markerId = 0]]
BothStacks == undoStack \o redoStack

\* C1: after fresh object clicks, N successful undos followed by N successful
\* redos (fixed cube size, no other write) leave currentColors as it was
\* after the clicks, the undo stack holding the same entries in the same
\* order, and the redo stack empty.
C1_UndoRedoRoundTrip ==
    (hist.rt.phase = "redos" /\ hist.rt.k = hist.rt.n) =>
        /\ currentColors = hist.rt.colors
        /\ StripMarker(undoStack) = StripMarker(hist.rt.stack)
        /\ redoStack = <<>>

\* two clicks, two undos, two redos, on a cloud that shows paint
C1_Witness ==
    /\ hist.rt.phase = "redos"
    /\ hist.rt.k = 2
    /\ hist.rt.n = 2
    /\ currentColors # pointCloudData.originalColors

\* C2: a successful undo of the latest fresh object click, no colour write
\* in between, puts back at every affected point the colour captured in
\* previousColors, so that currentColors is what it was before the click,
\* and leaves that entry on top of the redo stack.
C2_UndoRestoresPreviousColors ==
    (lastOp = "undo" /\ lastRet = "action" /\ hist.undone.valid) =>
        /\ Len(redoStack) > 0
        /\ Top(redoStack).id = hist.undone.id
        /\ Top(redoStack) = lastArg.entry
        /\ currentColors = hist.undone.colors
        /\ \A k \in DOMAIN Top(redoStack).affectedPointIndices :
               currentColors[Top(redoStack).affectedPointIndices[k]]
                   = Top(redoStack).previousColors[k]

\* the undone click had painted over an earlier click's paint
C2_Witness ==
    /\ lastOp = "undo"
    /\ lastRet = "action"
    /\ hist.undone.valid
    /\ Len(Top(redoStack).affectedPointIndices) > 0
    /\ currentColors # pointCloudData.originalColors

\* C3: a fresh click empties the redo stack and pushes exactly one entry,
\* the one of the new click, on the undo stack.
C3_FreshClickClearsRedo ==
    [][lastOp' = "click" =>
          /\ redoStack' = <<>>
          /\ Len(undoStack') = Len(undoStack) + 1
          /\ StripMarker(Front(undoStack')) = StripMarker(undoStack)
          /\ Top(undoStack').clickPoint = Top(clickedPoints')
          /\ Top(undoStack').id \notin EntryIds(undoStack, <<>>)]_vars

\* a click made while undone clicks were waiting on the redo stack
C3_Witness ==
    /\ lastOp = "click"
    /\ lastArg.dropped > 0
    /\ Len(undoStack) = 2

\* C4: no entry is on both stacks or twice on one; a successful undo moves
\* exactly the top entry of the undo stack to the redo stack, a successful
\* redo moves exactly the top of the redo stack back; entries leave the
\* stacks only by a fresh click, clearClickPoints or reset.
C4_NoDuplicates ==
    \A i, j \in DOMAIN BothStacks : i # j => BothStacks[i].id # BothStacks[j].id

C4_EntriesConserved ==
    /\ []C4_NoDuplicates
    /\ [][/\ (lastOp' = "undo" /\ lastRet' = "action") =>
                /\ undoStack' = Front(undoStack)
                /\ Front(redoStack') = redoStack
                /\ Len(redoStack') = Len(redoStack) + 1
                /\ Top(redoStack') = Top(undoStack)
          /\ (lastOp' = "redo" /\ lastRet' = "action") =>
                /\ redoStack' = Front(redoStack)
                /\ Front(undoStack') = undoStack
                /\ Len(undoStack') = Len(undoStack) + 1
                /\ Top(undoStack').id = Top(redoStack).id
          /\ (EntryIds(undoStack, redoStack) \ EntryIds(undoStack', redoStack') # {}) =>
                lastOp' \in {"click", "clearClickPoints", "reset"}]_vars

\* a redo that moved one entry back while another stays undone
C4_Witness ==
    /\ lastOp = "redo"
    /\ lastRet = "action"
    /\ Len(undoStack) = 1
    /\ Len(redoStack) = 1

\* C5: undo() with an empty undo stack, redo() with an empty redo stack, and
\* either of them while isUndoInProgress or isRedoInProgress is set, return
\* null and change neither the stacks, clickedPoints, the markers, the
\* colours nor the flags, and start no new cooling-off timer.
C5_RefusedUndoRedoChangeNothing ==
    [][/\ (/\ lastOp' = "undo"
           /\ (Len(undoStack) = 0 \/ isUndoInProgress \/ isRedoInProgress)) =>
                /\ lastRet' = "null"
                /\ UNCHANGED << undoStack, redoStack, clickedPoints, markers, objs, cur,
                                isUndoInProgress, isRedoInProgress, undoTimers, redoTimers >>
       /\ (/\ lastOp' = "redo"
           /\ (Len(redoStack) = 0 \/ isUndoInProgress \/ isRedoInProgress)) =>
                /\ lastRet' = "null"
                /\ UNCHANGED << undoStack, redoStack, clickedPoints, markers, objs, cur,
                                isUndoInProgress, isRedoInProgress, undoTimers, redoTimers >>]_vars

\* an undo refused only because a redo is cooling off
C5_Witness ==
    /\ lastOp = "undo"
    /\ lastRet = "null"
    /\ Len(undoStack) > 0
    /\ isRedoInProgress
    /\ ~isUndoInProgress

\* C6: a background click (objectIdx 0) changes no value of currentColors,
\* when it is made, when it is undone and when it is redone, and its entry
\* never gets affectedPointIndices.
C6_BackgroundClickKeepsColors ==
    [][/\ (lastOp' = "click" /\ lastArg'.objectIdx = 0) =>
                /\ currentColors' = currentColors
                /\ ~Top(undoStack').hasAffected
       /\ (/\ lastOp' = "undo"
           /\ lastRet' = "action"
           /\ lastArg'.entry.clickPoint.objectIdx = 0) =>
                /\ currentColors' = currentColors
                /\ ~Top(redoStack').hasAffected
       /\ (/\ lastOp' = "redo"
           /\ lastRet' = "action"
           /\ lastArg'.entry.clickPoint.objectIdx = 0) =>
                /\ currentColors' = currentColors
                /\ ~Top(undoStack').hasAffected]_vars

\* a background click redone on a cloud that shows an object click's paint
C6_Witness ==
    /\ lastOp = "redo"
    /\ lastRet = "action"
    /\ lastArg.entry.clickPoint.objectIdx = 0
    /\ currentColors # pointCloudData.originalColors

(***************************************************************************)
(* Properties of the segmentation colour applier                           *)
(***************************************************************************)
\* pointCloud.store: isSegmented = computed(() => segmentedPointCloud !== null)
isSegmented == segmentedPointCloud.isSet

\* the step is the completion of a run no other writer touched
CleanRunCompleted == lastArg.kind = "chunk" /\ lastArg.completed /\ lastArg.clean

\* C7: when the label array's length differs from pointCount,
\* applySegmentation aborts: currentColors is unchanged, no chunk is
\* scheduled, the store's call does not report success, and
\* segmentedPointCloud / isSegmented stay as they were.
C7_MismatchAborts ==
    [][(/\ lastOp' = "applySegmentation"
        /\ pointCloudData.geometry
        /\ Len(lastArg'.labels) # pointCloudData.pointCount) =>
            /\ objs' = objs
            /\ runs' = runs
            /\ lastRet' # "true"
            /\ segmentedPointCloud' = segmentedPointCloud
            /\ isSegmented' = isSegmented]_vars

\* C8: after a run with labels of length pointCount completed with no other
\* writer in between, every point with a non-zero label has
\* getColorFromIndex(label) and every point with label 0 has its
\* originalColors value; all-zero labels give currentColors = originalColors.
C8_CompletedRunColors ==
    CleanRunCompleted =>
        /\ \A i \in 0..(lastArg.data.pointCount - 1) :
              lastArg.data.currentColors[i] =
                  IF lastArg.labels[i + 1] # 0
                  THEN getColorFromIndex(lastArg.labels[i + 1])
                  ELSE lastArg.data.originalColors[i]
        /\ (\A k \in DOMAIN lastArg.labels : lastArg.labels[k] = 0) =>
              lastArg.data.currentColors = lastArg.data.originalColors

\* a run of several chunks with both kinds of label, a label-0 point that
\* showed paint when the run started
C8_Witness ==
    /\ CleanRunCompleted
    /\ lastOp = "chunk"
    /\ \E k \in DOMAIN lastArg.labels : lastArg.labels[k] # 0
    /\ \E i \in 0..(lastArg.data.pointCount - 1) :
          /\ lastArg.labels[i + 1] = 0
          /\ lastArg.start[i] # lastArg.data.originalColors[i]

\* C9: for every label array of length pointCount and every chunk size, the
\* chunked run ends with the currentColors the single-pass loop computes
\* from the same labels and the same starting buffers.
C9_ChunkedEqualsSinglePass ==
    CleanRunCompleted =>
        LET before == [lastArg.data EXCEPT !.currentColors = lastArg.start]
            single == SinglePass(before, lastArg.labels)
        IN  /\ single.ok
            /\ single.data.currentColors = lastArg.data.currentColors

\* three points in chunks of two: a full chunk, then a partial one
C9_Witness ==
    /\ CleanRunCompleted
    /\ lastOp = "chunk"
    /\ chunkSize = 2
    /\ lastArg.data.pointCount = 3
    /\ lastArg.data.currentColors # lastArg.start

\* C10: once loadPointCloud replaced or cleanup dropped the active buffer, the
\* pending chunks of a run started before write nothing to the active
\* currentColors, and the run's completion sets neither segmentedPointCloud
\* nor the processing flags.
C10_SupersededRunIsInert ==
    [][(lastOp' = "chunk" /\ lastArg'.stale) =>
            /\ currentColors' = currentColors
            /\ lastArg'.completed =>
                  /\ segmentedPointCloud' = segmentedPointCloud
                  /\ isProcessingSegmentation' = isProcessingSegmentation
                  /\ loadingProgress' = loadingProgress]_vars

(***************************************************************************)
(* Properties of the two writers together                                  *)
(***************************************************************************)
\* C11: between the first chunk and the completion of an applySegmentation
\* run no click, undo or redo writes to currentColors, so the buffer at
\* completion is exactly the run's result.
C11_NoSelectionWriteDuringApply ==
    [][/\ (runs # <<>> /\ lastOp' \in {"click", "undo", "redo"}) =>
              currentColors' = currentColors
       /\ (lastOp' = "chunk" /\ lastArg'.completed /\ ~lastArg'.stale) =>
              \A i \in 0..(pointCloudData.pointCount - 1) :
                  currentColors'[i] =
                      IF lastArg'.labels[i + 1] # 0
                      THEN getColorFromIndex(lastArg'.labels[i + 1])
                      ELSE pointCloudData.originalColors[i]]_vars

(***************************************************************************)
(* Serialisation of Apply runs by the api store                            *)
(***************************************************************************)
\* C12: whatever the interleaving of runSegmentation and runPartSegmentation
\* calls, at most one call is past its guard and at most one Apply run is in
\* progress; both flags are held from the start of the request until the
\* awaited run has completed; a call made while a flag is held returns false
\* and starts nothing.
C12_ApplyRunsSerialized ==
    /\ [](/\ Len(apiCalls) <= 1
          /\ Len(runs) <= 1
          /\ apiCalls # <<>> => (operationLock /\ isProcessing)
          /\ runs # <<>> => (apiCalls # <<>> /\ apiCalls[1].pc = "applying"
                                /\ apiCalls[1].run = 1))
    /\ [][(lastOp' \in SegmentationCalls /\ (operationLock \/ isProcessing)) =>
              (/\ lastRet' = "false"
               /\ UNCHANGED << pcVars, annVars, apiVars >>)]_vars

\* a second call was refused while the first call's run was still in chunks
C12_Witness ==
    /\ lastOp \in SegmentationCalls
    /\ lastRet = "false"
    /\ Len(runs) = 1
    /\ Len(apiCalls) = 1
    /\ apiCalls[1].pc = "applying"
    /\ operationLock /\ isProcessing

(***************************************************************************)
(* Properties of the grid index                                            *)
(***************************************************************************)
\* floor(x / cellSize), stated without the division
Floor(x, cellSize) ==
    CHOOSE q \in (0 - 4 * MaxCoord - 8)..(4 * MaxCoord + 8) :
        q * cellSize <= x /\ x < (q + 1) * cellSize

CellOf(p, cellSize) == << Floor(p[1], cellSize), Floor(p[2], cellSize), Floor(p[3], cellSize) >>

\* C13: after build, every point index 0..N-1 is stored in exactly one cell,
\* the one whose key is the floor of coordinate / cellSize per axis of the
\* point's own coordinates, and no other index is stored.
C13_EveryIndexInItsCell ==
    spatialIndex.present =>
        LET N == pointCloudData.pointCount
            cells == spatialIndex.cells
        IN  /\ \A i \in 0..(N - 1) :
                  /\ Cardinality({k \in DOMAIN cells :
                                     \E j \in DOMAIN cells[k] : cells[k][j] = i}) = 1
                  /\ \A k \in DOMAIN cells :
                         /\ Cardinality({j \in DOMAIN cells[k] : cells[k][j] = i}) <= 1
                         /\ (\E j \in DOMAIN cells[k] : cells[k][j] = i) =>
                                k = CellOf(pointCloudData.positions[i + 1],
                                           spatialIndex.cellSize)
            /\ \A k \in DOMAIN cells : \A j \in DOMAIN cells[k] : cells[k][j] \in 0..(N - 1)

\* an index was built over two points, one of them with a negative
\* coordinate that is no multiple of the cell size
C13_Witness ==
    /\ lastOp = "build"
    /\ spatialIndex.present
    /\ spatialIndex.cellSize = 2
    /\ pointCloudData.pointCount = 2
    /\ pointCloudData.positions[1][1] = 0 - 1
    /\ Cardinality(DOMAIN spatialIndex.cells) = 2

\* the query cube covers the bounding box of the stored points on every axis
Covers(position, size) ==
    \/ pointCloudData.positions = <<>>
    \/ \A k \in 1..3 :
        /\ position[k] - size <= SeqMin(pointCloudData.positions, k)
        /\ SeqMax(pointCloudData.positions, k) <= position[k] + size

\* C14: a query cube covering the bounding box of all points on every axis
\* returns exactly the set of all point indices.
C14_CoveringQueryReturnsAll ==
    (lastArg.kind = "query" /\ Covers(lastArg.position, lastArg.size)) =>
        {lastArg.result[j] : j \in DOMAIN lastArg.result}
            = 0..(pointCloudData.pointCount - 1)

\* a covering query of two points lying in different cells, one of them on
\* the upper face of the cube
C14_Witness ==
    /\ lastArg.kind = "query"
    /\ Covers(lastArg.position, lastArg.size)
    /\ pointCloudData.pointCount = 2
    /\ Cardinality(DOMAIN spatialIndex.cells) = 2
    /\ \E i \in 1..2 : pointCloudData.positions[i][1] = lastArg.position[1] + lastArg.size
    /\ Len(lastArg.result) = 2

\* C15: every index findPointsInCube returns belongs to a point whose cell
\* coordinate on each axis lies between the cells of the cube's two faces, so
\* each coordinate is at most one cell size outside the cube.
C15_ReturnedPointsNearCube ==
    lastArg.kind = "query" =>
        \A j \in DOMAIN lastArg.result :
            LET idx == lastArg.result[j]
                cs == spatialIndex.cellSize
            IN  /\ idx \in 0..(pointCloudData.pointCount - 1)
                /\ \A k \in 1..3 :
                      LET c == pointCloudData.positions[idx + 1][k]
                          lo == lastArg.position[k] - lastArg.size
                          hi == lastArg.position[k] + lastArg.size
                      IN  /\ Floor(lo, cs) <= Floor(c, cs)
                          /\ Floor(c, cs) <= Floor(hi, cs)
                          /\ lo - cs <= c
                          /\ c <= hi + cs

\* a query returned a point lying outside the cube, within the cell margin,
\* while another stored point was left out
C15_Witness ==
    /\ lastArg.kind = "query"
    /\ Len(lastArg.result) = 1
    /\ pointCloudData.pointCount = 2
    /\ pointCloudData.positions[lastArg.result[1] + 1][1] > lastArg.position[1] + lastArg.size

(***************************************************************************)
(* Properties of the nearest-point search                                  *)
(***************************************************************************)
\* the candidates findNearestPoint's result was chosen from
Candidates(position) ==
    IF spatialIndex.present /\ pointCloudData.geometry
    THEN findPointsInCube(spatialIndex, position, cubeSize)
    ELSE <<>>

\* C16: findNearestPoint returns null exactly when the cube query around the
\* position yields no candidate; otherwise it returns the first candidate
\* whose squared distance to the position is minimal over all candidates,
\* with the stored coordinates of that same index.
C16_NearestIsFirstClosestCandidate ==
    lastArg.kind = "nearest" =>
        LET r == lastArg.result
            cands == Candidates(lastArg.position)
            d(j) == SqDist(pointCloudData.positions[cands[j] + 1], lastArg.position)
        IN  /\ r.found <=> cands # <<>>
            /\ r.found =>
                  /\ \E j \in DOMAIN cands :
                        /\ cands[j] = r.index
                        /\ \A k \in DOMAIN cands : d(j) <= d(k)
                        /\ \A k \in 1..(j - 1) : d(j) < d(k)
                  /\ r.position = pointCloudData.positions[r.index + 1]

\* two candidates at the same distance, the first in scan order (the point
\* of index 1) returned
C16_Witness ==
    /\ lastArg.kind = "nearest"
    /\ lastArg.result.found
    /\ lastArg.result.index = 1
    /\ LET cands == Candidates(lastArg.position)
       IN  /\ cands = <<1, 0>>
           /\ SqDist(pointCloudData.positions[1], lastArg.position)
                  = SqDist(pointCloudData.positions[2], lastArg.position)
           /\ pointCloudData.positions[1] # pointCloudData.positions[2]

\* C17: a point findNearestPoint returns lies within maxDistance of the given
\* position, and a position with no stored point within maxDistance yields
\* null.
C17_NearestWithinMaxDistance ==
    lastArg.kind = "nearest" =>
        LET r == lastArg.result
            far(p) == SqDist(p, lastArg.position) > lastArg.maxDistance * lastArg.maxDistance
        IN  /\ r.found => ~far(r.position)
            /\ (\A i \in 1..pointCloudData.pointCount : far(pointCloudData.positions[i]))
                   => ~r.found

(***************************************************************************)
(* Sequence numbers of clicks                                              *)
(***************************************************************************)
\* C20: a click created by a fresh addClickPoint gets a timeIdx strictly
\* greater than the timeIdx of every click created before it (the clicks of
\* the list and of the entries of both stacks), so that no two clicks created
\* between resets share a sequence number.
C20_TimeIdxStrictlyIncreasing ==
    [][lastOp' = "click" =>
          LET timeIdx == clickedPoints'[Len(clickedPoints')].timeIdx
          IN  /\ \A i \in DOMAIN clickedPoints : clickedPoints[i].timeIdx < timeIdx
              /\ \A i \in DOMAIN undoStack : undoStack[i].clickPoint.timeIdx < timeIdx
              /\ \A i \in DOMAIN redoStack : redoStack[i].clickPoint.timeIdx < timeIdx]_vars

(***************************************************************************)
(* Properties of the pointer click                                         *)
(***************************************************************************)
\* the raycasts a pointer click made
Attempts == lastArg.attempts

\* C18: tryProgressiveRaycast casts with the base tolerance, then 0.05, then
\* 0.1, in increasing order; a further attempt is made only if all earlier
\* ones found no intersection; at most three attempts are made; null is
\* returned only if all three found none.
C18_ProgressiveRaycast ==
    (lastArg.kind \in {"click", "miss"} /\ pointCloudData.geometry) =>
        /\ Len(Attempts) \in 1..3
        /\ \A k \in DOMAIN Attempts :
              /\ Attempts[k].cast
              /\ Attempts[k].threshold = <<3, 5, 10>>[k]
              /\ k < Len(Attempts) => ~Attempts[k].result.hit
        /\ lastArg.raw = Attempts[Len(Attempts)].result
        /\ ~lastArg.raw.hit => Len(Attempts) = 3

\* a click whose first raycast found nothing and whose second, at 0.05, hit
C18_Witness ==
    /\ lastOp = "click"
    /\ Len(Attempts) = 2
    /\ ~Attempts[1].result.hit
    /\ Attempts[2].threshold = 5
    /\ lastArg.raw.hit

\* C19: a click point created by a pointer click has the index of a candidate
\* of the cube query around the ray's hit and the stored position of that
\* index; when the ray hits but the nearest-point search finds nothing, no
\* click point, history entry, marker or colour change is produced.
C19_ClickTargetIsStoredPoint ==
    [][/\ lastOp' = "click" =>
            LET cp == clickedPoints'[Len(clickedPoints')]
                cands == Candidates(lastArg'.raw.point)
            IN  /\ Len(clickedPoints') = Len(clickedPoints) + 1
                /\ \E j \in DOMAIN cands : cands[j] = cp.index
                /\ cp.position = pointCloudData.positions[cp.index + 1]
                /\ undoStack'[Len(undoStack')].clickPoint = cp
                /\ markers'[Len(markers')].position = cp.position
       /\ (lastOp' \in {"click", "clickMiss"} /\ lastArg'.raw.hit
              /\ Candidates(lastArg'.raw.point) = <<>>) =>
            UNCHANGED << pcVars, annVars >>]_vars

\* a click whose ray hit lies between stored points was snapped to one
C19_Witness ==
    /\ lastOp = "click"
    /\ lastArg.raw.hit
    /\ \A i \in 1..pointCloudData.pointCount :
           pointCloudData.positions[i] # lastArg.raw.point
    /\ clickedPoints # <<>>
    /\ clickedPoints[Len(clickedPoints)].position
           = pointCloudData.positions[clickedPoints[Len(clickedPoints)].index + 1]

(***************************************************************************)
(* Properties of applySelection and of the history entries                 *)
(***************************************************************************)
\* currentColors as an undo() made now would leave it
ColorsAfterUndo ==
    IF undoStack = <<>> THEN currentColors
    ELSE LET lastAction == undoStack[Len(undoStack)]
         IN  IF lastAction.hasAffected
             THEN restorePointColors(pointCloudData, lastAction.affectedPointIndices,
                                     lastAction.previousColors).currentColors
             ELSE currentColors

\* the step before called applySelection(position, objectIdx), on its own or
\* from a click in object mode
JustSelected(position, objectIdx) ==
    \/ /\ lastOp = "applySelection"
       /\ lastArg.position = position
       /\ lastArg.objectIdx = objectIdx
    \/ /\ lastOp = "click"
       /\ lastArg.objectIdx = objectIdx
       /\ objectIdx # 0
       /\ clickedPoints[Len(clickedPoints)].position = position

\* C21: applySelection called a second time in a row with the same position,
\* objectIdx and cube size leaves the state the first call left: the same
\* currentColors, and the same currentColors after a following undo().
C21_ApplySelectionIdempotent ==
    [][(lastOp' = "applySelection"
            /\ JustSelected(lastArg'.position, lastArg'.objectIdx)) =>
          /\ currentColors' = currentColors
          /\ ColorsAfterUndo' = ColorsAfterUndo]_vars

(***************************************************************************)
(* Properties of the colour buffers                                        *)
(***************************************************************************)
\* the originalColors arrays of the PointCloudData objects still in use
OriginalBuffers == {objs[k].originalColors : k \in DOMAIN objs}

\* C22: originalColors is frozen: no click, undo, redo, applySegmentation
\* chunk or resetColors writes to it; it changes only when loadPointCloud or
\* cleanup replaces the whole PointCloudData object.
C22_OriginalColorsFrozen ==
    [][lastOp' \notin {"loadFinish", "cleanup"} =>
          /\ pointCloudData.originalColors' = pointCloudData.originalColors
          /\ OriginalBuffers' \subseteq OriginalBuffers]_vars

\* a chunk has just written a colour into the active buffer at a point that a
\* click had painted before, and originalColors still holds the file's colours
C22_Witness ==
    /\ lastOp = "chunk"
    /\ pointCloudData.geometry
    /\ undoStack # <<>>
    /\ \E i \in DOMAIN currentColors : currentColors[i] # pointCloudData.originalColors[i]
    /\ pointCloudData.originalColors = FileColors(pointCloudData.file)

(***************************************************************************)
(* The grid over an empty buffer and queries that meet no cell             *)
(***************************************************************************)
\* the cells of the index whose key lies in the range findPointsInCube scans
CellsInRange(index, position, size) ==
    {key \in DOMAIN index.cells :
        \A k \in 1..3 :
            /\ (position[k] - size) \div index.cellSize <= key[k]
            /\ key[k] <= (position[k] + size) \div index.cellSize}

\* C23: build over an empty position buffer gives an index with no cell and
\* point count 0, and findPointsInCube on an index with no cell in the
\* queried range, the empty index included, returns, and returns an empty
\* list.
C23_EmptyIndexAndEmptyRange ==
    /\ (spatialIndex.present /\ pointCloudData.positions = <<>>) =>
           /\ spatialIndex.cells = NoCells
           /\ spatialIndex.pointCount = 0
    /\ (lastArg.kind = "query"
            /\ CellsInRange(spatialIndex, lastArg.position, lastArg.size) = {}) =>
           /\ lastArg.returns
           /\ lastArg.result = <<>>


(***************************************************************************)
(* redo() replays without clearing the redo stack or recapturing           *)
(***************************************************************************)
\* C24: a successful redo() leaves the entries below the popped one on
\* redoStack, and the redone entry arrives on undoStack with the
\* affectedPointIndices and previousColors it had before the redo.
C24_RedoKeepsStackAndCapture ==
    [][(lastOp' = "redo" /\ lastRet' = "action") =>
          LET action == redoStack[Len(redoStack)]
              redone == undoStack'[Len(undoStack')]
          IN  /\ redoStack' = SubSeq(redoStack, 1, Len(redoStack) - 1)
              /\ Len(undoStack') = Len(undoStack) + 1
              /\ redone.id = action.id
              /\ redone.hasAffected = action.hasAffected
              /\ redone.affectedPointIndices = action.affectedPointIndices
              /\ redone.previousColors = action.previousColors]_vars

\* a redo has replayed an entry with captured colours while another entry
\* stays on redoStack, after an Apply chunk wrote other colours in between
C24_Witness ==
    /\ lastOp = "redo"
    /\ lastRet = "action"
    /\ Len(redoStack) = 1
    /\ undoStack # <<>>
    /\ undoStack[Len(undoStack)].hasAffected
    /\ \E k \in DOMAIN undoStack[Len(undoStack)].previousColors :
           undoStack[Len(undoStack)].previousColors[k]
               # pointCloudData.originalColors[undoStack[Len(undoStack)].affectedPointIndices[k]]

(***************************************************************************)
(* History entries after they were filled                                  *)
(***************************************************************************)
\* entry f carries what the filled entry e recorded
SameRecord(e, f) ==
    e.hasAffected =>
        /\ f.clickPoint = e.clickPoint
        /\ f.affectedPointIndices = e.affectedPointIndices
        /\ f.previousColors = e.previousColors

\* C25: once the applySelection following a fresh addClickPoint has filled an
\* entry, no later operation changes its clickPoint, affectedPointIndices or
\* previousColors while it stays on either stack.
C25_FilledEntriesImmutable ==
    [][/\ \A i \in (DOMAIN undoStack) \cap (DOMAIN undoStack') :
              SameRecord(undoStack[i], undoStack'[i])
       /\ \A i \in (DOMAIN redoStack) \cap (DOMAIN redoStack') :
              SameRecord(redoStack[i], redoStack'[i])
       /\ (lastOp' = "undo" /\ lastRet' = "action") =>
              SameRecord(undoStack[Len(undoStack)], redoStack'[Len(redoStack')])
       /\ (lastOp' = "redo" /\ lastRet' = "action") =>
              SameRecord(redoStack[Len(redoStack)], undoStack'[Len(undoStack')])]_vars

(***************************************************************************)
(* undo() and the clickedPoints list                                       *)
(***************************************************************************)
\* C26: a successful undo() removes from clickedPoints exactly one element,
\* the click recorded in the returned entry (same timeIdx, position,
\* objectIdx and index), and leaves the other elements in place.
C26_UndoRemovesItsClick ==
    [][(lastOp' = "undo" /\ lastRet' = "action") =>
          LET cp == lastArg'.entry.clickPoint
          IN  /\ Len(clickedPoints') = Len(clickedPoints) - 1
              /\ \E k \in DOMAIN clickedPoints :
                     /\ clickedPoints[k] = cp
                     /\ clickedPoints' = [i \in 1..(Len(clickedPoints) - 1) |->
                                             IF i < k THEN clickedPoints[i]
                                             ELSE clickedPoints[i + 1]]]_vars

\* undo() has removed the second of two clicks made for the same object
C26_Witness ==
    /\ lastOp = "undo"
    /\ lastRet = "action"
    /\ lastArg.entry.clickPoint.timeIdx = 1
    /\ Len(clickedPoints) = 1
    /\ clickedPoints[1].objectIdx = lastArg.entry.clickPoint.objectIdx
    /\ clickedPoints[1].position # lastArg.entry.clickPoint.position

(***************************************************************************)
(* The chunks of one applySegmentation run                                 *)
(***************************************************************************)
\* the step just taken ran processNextChunk
ChunkStep == lastArg'.kind = "chunk" /\ lastOp' \in {"chunk", "applySegmentation"}

\* before that step: the buffer object of the run and its currentIndex
ChunkBefore ==
    IF lastArg'.run = 0
    THEN [data |-> pointCloudData, from |-> 0]
    ELSE [data |-> objs[runs[lastArg'.run].data],
          from |-> runs[lastArg'.run].currentIndex]

\* C27: each processNextChunk covers the contiguous range that starts where
\* the run stood (0 for the chunk inside the call) and holds at most
\* chunkSize points; it writes every index of that range and no other, the
\* run then stands at the end of the range, and the run is over exactly when
\* the range ends at pointCount: one chunk per tick, in increasing index
\* order, every index written once.
C27_ChunksContiguousInOrder ==
    [][ChunkStep =>
          LET a == lastArg'
              pre == ChunkBefore
              n == pre.data.pointCount
          IN  /\ a.from = pre.from
              /\ a.to = IF pre.from + chunkSize < n THEN pre.from + chunkSize ELSE n
              /\ a.to - a.from <= chunkSize
              /\ \A i \in 0..(n - 1) :
                     a.data.currentColors[i] =
                         IF i < a.from \/ i >= a.to
                         THEN pre.data.currentColors[i]
                         ELSE IF a.labels[i + 1] # 0
                         THEN getColorFromIndex(a.labels[i + 1])
                         ELSE pre.data.originalColors[i]
              /\ a.completed <=> (a.to = n)
              /\ ~a.completed =>
                     runs'[IF a.run = 0 THEN Len(runs') ELSE a.run].currentIndex = a.to
              /\ a.completed =>
                     Len(runs') = IF a.run = 0 THEN Len(runs) ELSE Len(runs) - 1]_vars

\* a timer tick has run the middle chunk of a run over three points
C27_Witness ==
    /\ lastOp = "chunk"
    /\ lastArg.kind = "chunk"
    /\ lastArg.from = 1
    /\ lastArg.to = 2
    /\ lastArg.data.pointCount = 3
    /\ ~lastArg.completed
    /\ \E r \in DOMAIN runs : runs[r].currentIndex = 2


\* how often onComplete occurs among the calls of one step
CompleteCalls(calls) == Cardinality({k \in DOMAIN calls : calls[k] = "onComplete"})

\* C28: one applySegmentation call invokes onComplete once: a step calls it
\* at most once and as its last call (no onProgress and no setTimeout after
\* it); a validated run calls it in the chunk that reaches pointCount, right
\* after the final updateBuffer, and that run leaves the pending runs, so no
\* chunk of it runs afterwards; a chunk that has not reached pointCount
\* schedules the next one and leaves the store's completion state alone.
C28_OnCompleteOnceAndLast ==
    [][/\ (lastOp' \in {"chunk", "applySegmentation"}
              /\ lastArg'.kind \in {"chunk", "mismatch"}) =>
          LET a == lastArg'
              calls == a.calls
          IN  /\ CompleteCalls(calls) <= 1
              /\ CompleteCalls(calls) = 1 =>
                     /\ calls[Len(calls)] = "onComplete"
                     /\ segmentedPointCloud' = [isSet |-> TRUE, segmentation |-> a.labels]
                     /\ ~isProcessingSegmentation'
              /\ a.kind = "mismatch" => calls = << "onComplete" >>
              /\ a.kind = "chunk" =>
                     /\ (CompleteCalls(calls) = 1) <=> a.completed
                     /\ a.completed =>
                            /\ a.to = a.data.pointCount
                            /\ Len(calls) >= 2
                            /\ calls[Len(calls) - 1] = "updateBuffer"
                            /\ Len(runs') = IF a.run = 0 THEN Len(runs) ELSE Len(runs) - 1
                     /\ ~a.completed =>
                            /\ calls[Len(calls)] = "setTimeout"
                            /\ segmentedPointCloud' = segmentedPointCloud
                            /\ Len(runs') = IF a.run = 0 THEN Len(runs) + 1 ELSE Len(runs)
       /\ \A r \in DOMAIN runs' :
              runs'[r].currentIndex < objs'[runs'[r].data].pointCount]_vars

\* a timer tick has run the last chunk of a run over three points and the
\* run has left the pending runs
C28_Witness ==
    /\ lastOp = "chunk"
    /\ lastArg.kind = "chunk"
    /\ lastArg.completed
    /\ lastArg.from > 0
    /\ lastArg.to = 3
    /\ lastArg.calls = << "onProgress", "updateBuffer", "updateBuffer", "onComplete" >>
    /\ runs = << >>
    /\ segmentedPointCloud.isSet

(***************************************************************************)
(* Termination of a run and the progress it reports                        *)
(***************************************************************************)
\* C29: when every pending timer fires, the pending runs all reach their
\* onComplete, isProcessingSegmentation returns to false, and an api call
\* awaiting the store's promise releases operationLock.
C29_RunsTerminate ==
    /\ (runs # << >>) ~> (runs = << >>)
    /\ isProcessingSegmentation ~> ~isProcessingSegmentation
    /\ (\E c \in DOMAIN apiCalls : apiCalls[c].pc = "applying") ~> ~operationLock

\* runSegmentation awaits a run that has chunks left, holding operationLock
C29_Witness ==
    /\ runs # << >>
    /\ isProcessingSegmentation
    /\ operationLock
    /\ \E c \in DOMAIN apiCalls : apiCalls[c].pc = "applying" /\ apiCalls[c].run \in DOMAIN runs

\* C30: every progress value a run reports is a number in (0, 1], larger
\* than the one before, and the last one is 1, whatever pointCount is.
C30_ProgressInUnitInterval ==
    lastArg.kind = "chunk" =>
        /\ ~lastArg.progress.nan
        /\ 0 < lastArg.progress.num
        /\ lastArg.progress.num <= lastArg.progress.den
        /\ lastArg.from < lastArg.to
        /\ lastArg.completed => lastArg.progress.num = lastArg.progress.den

(***************************************************************************)
(* The colour of an object index                                           *)
(***************************************************************************)
\* the channels of hsl(hue, 1, 0.5) in units of 1/60, hue in degrees
HslColor(hue) ==
    LET ch(t) == LET u == (t + 360) % 360
                 IN  IF u < 60 THEN u
                     ELSE IF u <= 180 THEN 60
                     ELSE IF u < 240 THEN 240 - u
                     ELSE 0
    IN  << ch(hue + 120), ch(hue), ch(hue - 120) >>

\* C31: for every object index k >= 1 the colour applySelection writes,
\* getSelectionColor('object', k), is the colour applySegmentation writes for
\* label k, getColorFromIndex(k), and it is the colour of hue (k * 50) mod 360.
C31_LabelColourShared ==
    (lastArg.kind = "color" /\ lastArg.mode = "object" /\ lastArg.index >= 1) =>
        /\ lastArg.selection = lastArg.label
        /\ lastArg.label = HslColor((lastArg.index * 50) % 360)

\* the colours of object index 8, whose hue 400 mod 360 = 40 has wrapped
C31_Witness ==
    /\ lastArg.kind = "color"
    /\ lastArg.mode = "object"
    /\ lastArg.index = 8
    /\ lastArg.selection = <<60, 40, 0>>
    /\ lastArg.label = <<60, 40, 0>>

C33_ClicksMirrorUndoStack ==
    /\ Len(clickedPoints) = Len(undoStack)
    /\ \A i \in DOMAIN clickedPoints :
           /\ clickedPoints[i].timeIdx = i - 1
           /\ undoStack[i].clickPoint.timeIdx = clickedPoints[i].timeIdx
           /\ undoStack[i].clickPoint.objectIdx = clickedPoints[i].objectIdx
           /\ undoStack[i].clickPoint.position = clickedPoints[i].position

\* two active clicks at different points, the second one put back by redo()
C33_Witness ==
    /\ lastOp = "redo"
    /\ lastRet = "action"
    /\ Len(clickedPoints) = 2
    /\ clickedPoints[1].position # clickedPoints[2].position
    /\ clickedPoints[1].objectIdx = clickedPoints[2].objectIdx

(***************************************************************************)
(* redo() and the cube size                                                *)
(***************************************************************************)
\* the indices at which two colour buffers of the same length differ
Changed(before, after) == {i \in DOMAIN before : before[i] # after[i]}

\* C34: redo() writes colours only at the points recorded in the redone
\* entry's affectedPointIndices, whatever cubeSize is at that time, and an
\* undo() made right after it would leave currentColors as it was before
\* the redo.
C34_RedoRepaintsRecordedPoints ==
    [][(lastOp' = "redo" /\ lastRet' = "action") =>
          LET action == redoStack[Len(redoStack)]
              recorded == {action.affectedPointIndices[k] :
                              k \in DOMAIN action.affectedPointIndices}
          IN  /\ Changed(currentColors, currentColors') \subseteq recorded
              /\ ColorsAfterUndo' = currentColors]_vars

(***************************************************************************)
(* undo() after a completed applySegmentation run                          *)
(***************************************************************************)
\* the colour the completed run assigned to point i
AssignedColor(i) ==
    IF segmentedPointCloud.segmentation[i + 1] # 0
    THEN getColorFromIndex(segmentedPointCloud.segmentation[i + 1])
    ELSE pointCloudData.originalColors[i]

\* no run is pending and the buffer holds what the last completed run wrote
ShowsSegmentation ==
    /\ segmentedPointCloud.isSet
    /\ runs = << >>
    /\ pointCloudData.geometry
    /\ Len(segmentedPointCloud.segmentation) = pointCloudData.pointCount
    /\ \A i \in DOMAIN currentColors : currentColors[i] = AssignedColor(i)

\* C35: when the buffer shows the result of a completed run, a successful
\* undo() leaves every point at the colour the run assigned to it.
C35_UndoKeepsSegmentationColors ==
    [][(ShowsSegmentation /\ lastOp' = "undo" /\ lastRet' = "action") =>
          \A i \in DOMAIN currentColors : currentColors'[i] = AssignedColor(i)]_vars


(***************************************************************************)
(* History and the loaded buffer                                           *)
(***************************************************************************)
\* C36: whenever pointCloudData is replaced by loadPointCloud or emptied by
\* cleanup, undoStack, redoStack and clickedPoints are empty afterwards, the
\* load that handleFileUpload starts after a refused uploadPointCloud
\* included.
C36_HistoryRefersToLoadedBuffer ==
    [][lastOp' \in {"loadFinish", "cleanup"} =>
          /\ undoStack' = <<>>
          /\ redoStack' = <<>>
          /\ clickedPoints' = <<>>]_vars


(***************************************************************************)
(* The grid query against the linear scan                                  *)
(***************************************************************************)
SeqRange(s) == {s[j] : j \in DOMAIN s}

\* the points the linear scan selects for the last query
LegacyOfQuery ==
    SeqRange(applyLegacySelectionIndices(pointCloudData.positions,
                                         lastArg.position, lastArg.size))

\* C37: with a positive cell size, the list findPointsInCube returns holds
\* every point whose three coordinates lie within the half-width of the
\* centre: the selection of the linear scan is a subset of the selection of
\* the grid query.
C37_GridQueryCoversExactCube ==
    (lastArg.kind = "query" /\ spatialIndex.cellSize > 0) =>
        LegacyOfQuery \subseteq SeqRange(lastArg.result)

\* a query whose exact cube holds a point and whose cells hold one more
C37_Witness ==
    /\ lastArg.kind = "query"
    /\ spatialIndex.cellSize > 0
    /\ LegacyOfQuery # {}
    /\ LegacyOfQuery # SeqRange(lastArg.result)


(***************************************************************************)
(* No point index twice in a query result                                  *)
(***************************************************************************)
NoDuplicate(s) == \A i, j \in DOMAIN s : s[i] = s[j] => i = j

\* C38: the list findPointsInCube returns holds each point index at most
\* once, also when build was called again on the same index object, and no
\* entry of the undo or redo stack holds an index twice in its
\* affectedPointIndices.
C38_QueryReturnsEachIndexOnce ==
    /\ lastArg.kind = "query" => NoDuplicate(lastArg.result)
    /\ \A k \in DOMAIN undoStack : NoDuplicate(undoStack[k].affectedPointIndices)
    /\ \A k \in DOMAIN redoStack : NoDuplicate(redoStack[k].affectedPointIndices)

\* a query that returns two indices while an entry of the undo stack records
\* two
C38_Witness ==
    /\ lastArg.kind = "query"
    /\ Len(lastArg.result) = 2
    /\ \E k \in DOMAIN undoStack : Len(undoStack[k].affectedPointIndices) = 2


(***************************************************************************)
(* The cell size buildSpatialIndex chooses                                 *)
(***************************************************************************)
\* C39: the index built for a loaded cloud has a strictly positive cell
\* size, the cloud of an empty buffer included, and every findPointsInCube
\* call on it returns.
C39_ChosenCellSizePositive ==
    /\ (spatialIndex.present /\ pointCloudData.geometry) => spatialIndex.cellSize > 0
    /\ lastArg.kind = "query" => lastArg.returns


(***************************************************************************)
(* undo() and the marker of the undone click                               *)
(***************************************************************************)
\* C40: a successful undo() of a click removes that click's marker, also
\* for a click created by handleMetadataLoad: when every active click had
\* its marker before, the number of markers equals the number of active
\* clicks afterwards.
C40_UndoRemovesClickMarker ==
    [][(lastOp' = "undo" /\ lastRet' = "action"
            /\ Len(markers) = Len(clickedPoints)) =>
          Len(markers') = Len(clickedPoints')]_vars

====
